---- MODULE Spec2Model ----
(***************************************************************************)
(* Model of the data pipeline of dsm-data.py and erpc_extractor.py:        *)
(*                                                                         *)
(*  - the incremental master-table merge (process_dataframe) with the      *)
(*    pandas operations it relies on: read_csv / to_csv of the master      *)
(*    file, drop_duplicates, astype(str), the boolean-mask lookup, concat  *)
(*    and sort_values;                                                     *)
(*  - the change ledger (load_file_tracking, save_file_tracking,           *)
(*    scheduled_update, check_for_changes, download_and_process_file);     *)
(*  - the weekly workbook writer (process_weekly_dataframe);               *)
(*  - the cleaning of a parsed sheet (header row, column names, pruning)    *)
(*    and the parse of a downloaded workbook with its fallbacks;           *)
(*  - the CSV pass and the learned-pattern store of wrpc_extractor.py;     *)
(*  - the scheduler loop (start_scheduler).                                *)
(*                                                                         *)
(* A cell value is a record [k, t]: k is the Python type of the cell       *)
(* ("int", "float", "str", "nan") and t its text, a sequence of one-       *)
(* character strings.  A frame is [cols, rows]: the ordered column names   *)
(* and the rows, each a function from the column names to cell values.     *)
(* Each program has its own specification; the variables of the programs   *)
(* that do not run keep their initial values.                              *)
(***************************************************************************)
EXTENDS Integers, Sequences, FiniteSets, TLC

VARIABLES
  master_csv,       \* the master CSV file on disk: NoFile or a frame of texts
  calls,            \* number of process_dataframe calls made so far
  df,               \* argument of the last call
  pre_master,       \* master_df as loaded at the start of the last call
  key_columns,      \* key_columns resolved by the last call
  final_df,         \* final_df of the last call (the deduplicated batch)
  master_df,        \* master_df of the last call when it was written
  added_records,    \* added_records of the last call
  updated_records,  \* updated_records of the last call
  log,              \* levels and messages logged by the last call
  result,           \* return value of the last call
  data_type,        \* the data type whose master CSV the calls update
  program,          \* the script that runs: "dsm-data" or "erpc"
  tracking_file,    \* file_tracking.json on disk
  remote,           \* the content each URL serves now
  clock,            \* number of runs or calls started (datetime.now())
  last_run,         \* the last scheduled_update run of dsm-data.py
  erpc_tracking_file, \* erpc_file_tracking.json on disk
  local_files,      \* files named like an href in the download directories
  erpc_call,        \* the last download_and_process_file call of the ERPC script
  weekly_files,     \* the workbooks process_weekly_dataframe writes
  weekly_call,      \* the last process_weekly_dataframe call
  sheet,            \* the sheet as read_excel returned it
  cleaned,          \* the sheet after the cleaning of download_and_process_file
  workbook,         \* the downloaded workbook download_and_process_file parses
  parsed,           \* the parse of the workbook by download_and_process_file
  data_dir,         \* the CSV files in the data directory of wrpc_extractor.py
  wrpc_run,         \* the last run of main of wrpc_extractor.py
  pattern_file,     \* successful_patterns.txt of wrpc_extractor.py
  pattern_call,     \* the last save_successful_pattern call
  scheduler         \* the jobs and the clock of start_scheduler

mergeVars == <<master_csv, calls, df, pre_master, key_columns, final_df, master_df,
               added_records, updated_records, log, result, data_type>>

ledgerVars == <<program, tracking_file, remote, clock, last_run, erpc_tracking_file,
                local_files, erpc_call>>

writerVars == <<weekly_files, weekly_call>>

cleanerVars == <<sheet, cleaned>>

parserVars == <<workbook, parsed>>

wrpcVars == <<data_dir, wrpc_run>>

patternVars == <<pattern_file, pattern_call>>

schedulerVars == <<scheduler>>

restVars == <<parserVars, wrpcVars, patternVars, schedulerVars>>

vars == <<mergeVars, ledgerVars, writerVars, cleanerVars, restVars>>

----------------------------------------------------------------------------
(* Texts *)

\* The characters the model uses, in code-point order.
Alphabet ==
  <<" ", "-", ".", "0", "1", "2", "3", "4", "5", "6", "7", "8", "9",
    "A", "B", "_", "a", "n", "x">>

Ord(c) == CHOOSE i \in 1..Len(Alphabet) : Alphabet[i] = c

Digits == {"0", "1", "2", "3", "4", "5", "6", "7", "8", "9"}

\* Python's str < str: lexicographic by code point, a proper prefix is smaller.
RECURSIVE TextLess(_, _)
TextLess(a, b) ==
  IF b = <<>> THEN FALSE
  ELSE IF a = <<>> THEN TRUE
  ELSE IF Ord(Head(a)) < Ord(Head(b)) THEN TRUE
  ELSE IF Ord(Head(a)) > Ord(Head(b)) THEN FALSE
  ELSE TextLess(Tail(a), Tail(b))

RECURSIVE LStrip(_)
LStrip(t) == IF t # <<>> /\ Head(t) = " " THEN LStrip(Tail(t)) ELSE t

RECURSIVE RStrip(_)
RStrip(t) ==
  IF t # <<>> /\ t[Len(t)] = " " THEN RStrip(SubSeq(t, 1, Len(t) - 1)) ELSE t

\* str.strip()
Strip(t) == LStrip(RStrip(t))

RECURSIVE StripZeros(_)
StripZeros(t) ==
  IF Len(t) > 1 /\ Head(t) = "0" THEN StripZeros(Tail(t)) ELSE t

AllDigits(t) == t # <<>> /\ \A i \in 1..Len(t) : t[i] \in Digits

\* value of a digit string
RECURSIVE ToNat(_)
ToNat(t) ==
  IF t = <<>> THEN 0
  ELSE 10 * ToNat(SubSeq(t, 1, Len(t) - 1)) + (Ord(t[Len(t)]) - Ord("0"))

----------------------------------------------------------------------------
(* Cell values *)

NaN == [k |-> "nan", t |-> <<>>]
S(t) == [k |-> "str", t |-> t]
I(t) == [k |-> "int", t |-> t]
F(t) == [k |-> "float", t |-> t]

NanText == <<"n", "a", "n">>

\* str(value): str(nan) is 'nan', the other kinds print their text.
Str(v) == IF v.k = "nan" THEN NanText ELSE v.t

IsNumber(v) == v.k \in {"int", "float"}

\* Numeric value of an int or float cell as <<integer part, fraction digits>>;
\* the model's numbers are non-negative.
DotAt(t) == CHOOSE i \in 1..Len(t) : t[i] = "."
HasDot(t) == \E i \in 1..Len(t) : t[i] = "."
IntPart(t) == IF HasDot(t) THEN SubSeq(t, 1, DotAt(t) - 1) ELSE t
FracPart(t) == IF HasDot(t) THEN SubSeq(t, DotAt(t) + 1, Len(t)) ELSE <<>>

RECURSIVE StripTrailingZeros(_)
StripTrailingZeros(t) ==
  IF t # <<>> /\ t[Len(t)] = "0"
  THEN StripTrailingZeros(SubSeq(t, 1, Len(t) - 1)) ELSE t

NumKey(v) == <<ToNat(IntPart(v.t)), StripTrailingZeros(FracPart(v.t))>>

NumLess(a, b) ==
  \/ NumKey(a)[1] < NumKey(b)[1]
  \/ NumKey(a)[1] = NumKey(b)[1] /\ TextLess(NumKey(a)[2], NumKey(b)[2])

\* Equality of two cells as pandas' duplicated() sees it: same object value,
\* nan equal to nan, 1 equal to 1.0, 1 different from '1'.
RawEq(a, b) ==
  \/ a = b
  \/ IsNumber(a) /\ IsNumber(b) /\ NumKey(a) = NumKey(b)

----------------------------------------------------------------------------
(* Frames *)

NoFile == [cols |-> <<>>, rows |-> <<>>, exists |-> FALSE]

\* pd.DataFrame()
EmptyFrame == [cols |-> <<>>, rows |-> <<>>]

Range(s) == {s[i] : i \in 1..Len(s)}

\* DataFrame.empty: some axis has length 0
IsEmpty(frame) == frame.rows = <<>> \/ frame.cols = <<>>

\* a cell of a row, nan where the row has no such column (concat's fill)
Cell(row, c) == IF c \in DOMAIN row THEN row[c] ELSE NaN

----------------------------------------------------------------------------
(* The master CSV file: to_csv and read_csv *)

\* to_csv writes nan as the empty field and every other cell as its text.
CsvField(v) == IF v.k = "nan" THEN <<>> ELSE v.t

ToCsv(frame) ==
  [cols |-> frame.cols,
   rows |-> [i \in 1..Len(frame.rows) |->
               [c \in Range(frame.cols) |-> CsvField(frame.rows[i][c])]],
   exists |-> TRUE]

\* read_csv's default na_values that the alphabet can spell
NaValues == {<<>>, NanText, <<"-">> \o NanText}

IsIntText(t) == AllDigits(Strip(t))

IsFloatText(t) ==
  LET s == Strip(t) IN
    /\ HasDot(s)
    /\ Len(s) > 1
    /\ \A i \in 1..Len(s) : s[i] \in Digits \/ i = DotAt(s)

IntCanon(t) == StripZeros(Strip(t))

FloatCanon(t) ==
  LET s == Strip(t)
      ip == IF IntPart(s) = <<>> THEN <<"0">> ELSE StripZeros(IntPart(s))
      fp == StripTrailingZeros(FracPart(s))
  IN ip \o <<".">> \o (IF fp = <<>> THEN <<"0">> ELSE fp)

\* read_csv infers one dtype per column: int64 when every field is an
\* integer, float64 when every field is a number or missing, object otherwise.
ColumnKind(texts) ==
  LET present == {t \in texts : t \notin NaValues} IN
    IF texts = present /\ \A t \in texts : IsIntText(t) THEN "int"
    ELSE IF \A t \in present : IsIntText(t) \/ IsFloatText(t) THEN "float"
    ELSE "str"

ParseField(kind, t) ==
  IF t \in NaValues THEN NaN
  ELSE IF kind = "int" THEN I(IntCanon(t))
  ELSE IF kind = "float" THEN F(FloatCanon(t))
  ELSE S(t)

ReadCsv(file) ==
  LET kind(c) == ColumnKind({file.rows[i][c] : i \in 1..Len(file.rows)}) IN
    [cols |-> file.cols,
     rows |-> [i \in 1..Len(file.rows) |->
                 [c \in Range(file.cols) |-> ParseField(kind(c), file.rows[i][c])]]]

----------------------------------------------------------------------------
(* process_dataframe: key resolution, deduplication, the update loop *)

\* key resolution that looks for the Date column first
KeyColumnsDateFirst(cols) ==
  IF "Date" \in Range(cols) THEN <<"Date">>
  ELSE IF "Stn_Name" \in Range(cols) /\ "Stn_DC_Date" \in Range(cols)
  THEN <<"Stn_Name", "Stn_DC_Date">>
  ELSE cols

\* key_columns of process_dataframe
KeyColumns(cols) ==
  IF "Stn_Name" \in Range(cols) /\ "Stn_DC_Date" \in Range(cols)
  THEN <<"Stn_Name", "Stn_DC_Date">>
  ELSE IF "Date" \in Range(cols) THEN <<"Date">>
  ELSE cols

\* key_columns of process_weekly_dataframe
WeeklyKeyColumns(cols) ==
  IF "Stn_Name" \in Range(cols) /\ "Stn_DC_Date" \in Range(cols)
  THEN <<"Stn_Name", "Stn_DC_Date">>
  ELSE IF "Date" \in Range(cols) THEN <<"Date">>
  ELSE cols

\* the rows a sequence keeps, in order
RECURSIVE SelectRows(_, _)
SelectRows(rows, keep) ==
  IF rows = <<>> THEN <<>>
  ELSE (IF keep[1] THEN <<rows[1]>> ELSE <<>>)
       \o SelectRows(Tail(rows), [i \in 1..(Len(rows) - 1) |-> keep[i + 1]])

SameRawKey(r1, r2, keys) == \A c \in Range(keys) : RawEq(r1[c], r2[c])

\* df.drop_duplicates(subset=keys, keep="first")
DropDuplicatesKeepFirst(rows, keys) ==
  SelectRows(rows,
    [i \in 1..Len(rows) |->
       ~ \E j \in 1..(i - 1) : SameRawKey(rows[i], rows[j], keys)])

\* df.drop_duplicates(subset=keys, keep="last")
DropDuplicates(rows, keys) ==
  SelectRows(rows,
    [i \in 1..Len(rows) |->
       ~ \E j \in (i + 1)..Len(rows) : SameRawKey(rows[i], rows[j], keys)])

\* "_".join(parts)
RECURSIVE Join(_)
Join(parts) ==
  IF parts = <<>> THEN <<>>
  ELSE IF Len(parts) = 1 THEN parts[1]
  ELSE parts[1] \o <<"_">> \o Join(Tail(parts))

\* record_key of a row
RecordKey(row, keys) == Join([i \in 1..Len(keys) |-> Str(row[keys[i]])])

\* column.astype(str) on the key columns of a row
KeysAsStr(row, keys) ==
  [c \in DOMAIN row |-> IF c \in Range(keys) THEN S(Str(row[c])) ELSE row[c]]

\* a mask under which a missing key value equals nothing
MaskNotNa(row, new_row, keys) ==
  \A c \in Range(keys) : row[c] = new_row[c] /\ row[c].t # NanText

\* a mask that compares the first key column only
MaskFirstColumn(row, new_row, keys) == row[keys[1]] = new_row[keys[1]]

\* the boolean mask of the lookup: equal on every key column
Mask(row, new_row, keys) == \A c \in Range(keys) : row[c] = new_row[c]

\* the columns of pd.concat([a, b]): those of a, then the new ones of b
RECURSIVE ConcatCols(_, _)
ConcatCols(a, b) ==
  IF b = <<>> THEN a
  ELSE ConcatCols(IF Head(b) \in Range(a) THEN a ELSE Append(a, Head(b)), Tail(b))

Pad(row, cols) == [c \in Range(cols) |-> Cell(row, c)]

\* pd.concat([master_df, new_row.to_frame().T], ignore_index=True)
Concat(frame, new_row, new_cols) ==
  LET cols == ConcatCols(frame.cols, new_cols) IN
    [cols |-> cols,
     rows |-> [i \in 1..Len(frame.rows) |-> Pad(frame.rows[i], cols)]
              \o <<Pad(new_row, cols)>>]

\* master_df[mask] left in place: the update keeps the rows it matched
KeepMatched(rows, mask) == rows

\* master_df = master_df[~mask]
RemoveMatched(rows, mask) ==
  SelectRows(rows, [i \in 1..Len(rows) |-> ~mask[i]])

\* the test that guards the lookup of one row
LookupActive(m, keys) ==
  ~IsEmpty(m) /\ \A c \in Range(keys) : c \in Range(m.cols)

\* One iteration of the update loop over final_df.
UpdateStep(acc, raw_row, cols, keys) ==
  LET record_key == RecordKey(raw_row, keys)
      lookup == LookupActive(acc.m, keys)
      m_rows == IF lookup
                THEN [i \in 1..Len(acc.m.rows) |-> KeysAsStr(acc.m.rows[i], keys)]
                ELSE acc.m.rows
      new_row == IF lookup THEN KeysAsStr(raw_row, keys) ELSE raw_row
      mask == [i \in 1..Len(m_rows) |-> lookup /\ Mask(m_rows[i], new_row, keys)]
      found == \E i \in 1..Len(m_rows) : mask[i]
      kept == IF found THEN RemoveMatched(m_rows, mask) ELSE m_rows
  IN [m |-> Concat([cols |-> acc.m.cols, rows |-> kept], new_row, cols),
      added |-> IF found THEN acc.added ELSE Append(acc.added, record_key),
      updated |-> IF found THEN Append(acc.updated, record_key) ELSE acc.updated]

\* for _, new_row in final_df.iterrows(): ...
RECURSIVE UpdateLoop(_, _, _, _)
UpdateLoop(acc, rows, cols, keys) ==
  IF rows = <<>> THEN acc
  ELSE UpdateLoop(UpdateStep(acc, Head(rows), cols, keys), Tail(rows), cols, keys)

----------------------------------------------------------------------------
(* master_df.sort_values(key_columns) *)

\* Order of two key cells under sort_values: nan sorts last, strings compare
\* as strings and numbers as numbers.
CellLess(a, b) ==
  IF a.k = "nan" THEN FALSE
  ELSE IF b.k = "nan" THEN TRUE
  ELSE IF IsNumber(a) THEN NumLess(a, b)
  ELSE TextLess(a.t, b.t)

CellSame(a, b) == ~CellLess(a, b) /\ ~CellLess(b, a)

RECURSIVE KeyLess(_, _, _)
KeyLess(r1, r2, keys) ==
  IF keys = <<>> THEN FALSE
  ELSE IF CellLess(r1[Head(keys)], r2[Head(keys)]) THEN TRUE
  ELSE IF CellLess(r2[Head(keys)], r1[Head(keys)]) THEN FALSE
  ELSE KeyLess(r1, r2, Tail(keys))

KeySame(r1, r2, keys) == ~KeyLess(r1, r2, keys) /\ ~KeyLess(r2, r1, keys)

\* Comparing a str with a number raises TypeError.
Unorderable(rows, keys) ==
  \E c \in Range(keys) : \E i, j \in 1..Len(rows) :
    rows[i][c].k = "str" /\ IsNumber(rows[j][c])

\* insert a row behind every row that is not greater than it
RECURSIVE InsertRow(_, _, _)
InsertRow(sorted, row, keys) ==
  IF sorted = <<>> THEN <<row>>
  ELSE IF KeyLess(row, sorted[Len(sorted)], keys)
       THEN Append(InsertRow(SubSeq(sorted, 1, Len(sorted) - 1), row, keys),
                   sorted[Len(sorted)])
       ELSE Append(sorted, row)

\* the stable ascending order (lexsort_indexer, used for two or more columns)
RECURSIVE StableSort(_, _)
StableSort(rows, keys) ==
  IF rows = <<>> THEN <<>>
  ELSE InsertRow(StableSort(SubSeq(rows, 1, Len(rows) - 1), keys),
                 rows[Len(rows)], keys)

\* all orders of a sequence
RECURSIVE Perms(_)
Perms(s) ==
  IF Len(s) <= 1 THEN {s}
  ELSE UNION {{<<s[i]>> \o p :
                 p \in Perms(SubSeq(s, 1, i - 1) \o SubSeq(s, i + 1, Len(s)))} :
              i \in 1..Len(s)}

\* length of the run of rows at the head of a sorted sequence with one key
RECURSIVE RunLength(_, _)
RunLength(sorted, keys) ==
  IF Len(sorted) <= 1 THEN Len(sorted)
  ELSE IF KeySame(sorted[1], sorted[2], keys)
       THEN 1 + RunLength(Tail(sorted), keys)
       ELSE 1

\* The orders an unstable sort can give: rows with one key in any order.
\* The rows whose key is nan are appended behind the sorted ones as they
\* were (nargsort).
RECURSIVE TieOrders(_, _)
TieOrders(sorted, keys) ==
  IF sorted = <<>> THEN {<<>>}
  ELSE LET n == RunLength(sorted, keys)
           run == SubSeq(sorted, 1, n)
           heads == IF run[1][keys[1]].k = "nan" THEN {run} ELSE Perms(run)
       IN {h \o t : h \in heads,
                    t \in TieOrders(SubSeq(sorted, n + 1, Len(sorted)), keys)}

\* sort_values(by): with one column the default kind 'quicksort', which is
\* not stable; with several columns a stable lexsort.
SortValues(rows, keys) ==
  IF Len(keys) = 1 THEN TieOrders(StableSort(rows, keys), keys)
  ELSE {StableSort(rows, keys)}

----------------------------------------------------------------------------
(* The batches *)

\* rows in one batch
MaxBatch == 2

\* process_dataframe calls in one behaviour
MaxCalls == 2

TA == <<"A">>
TASpace == <<"A", " ">>
TB == <<"B">>
TDay == <<"2", "0", "2", "4", "-", "0", "1", "-", "0", "1">>
T1 == <<"1">>
T01 == <<"0", "1">>
T2 == <<"2">>
T5 == <<"5">>
T10 == <<"1", "0">>
T12 == <<"1", "2">>

StnCols == <<"Stn_Name", "Stn_DC_Date", "Value">>
StnDateCols == <<"Stn_Name", "Stn_DC_Date", "Date", "Value">>
DateCols == <<"Date", "Value">>
NameCols == <<"Stn_Name", "Value">>
NameDateCols == <<"Stn_Name", "Date">>

StnRow(name, day, value) ==
  [c \in Range(StnCols) |->
     IF c = "Stn_Name" THEN name ELSE IF c = "Stn_DC_Date" THEN day ELSE value]

StnDateRow(name, day, date, value) ==
  [c \in Range(StnDateCols) |->
     IF c = "Stn_Name" THEN name
     ELSE IF c = "Stn_DC_Date" THEN day
     ELSE IF c = "Date" THEN date ELSE value]

DateRow(date, value) ==
  [c \in Range(DateCols) |-> IF c = "Date" THEN date ELSE value]

NameRow(name, value) ==
  [c \in Range(NameCols) |-> IF c = "Stn_Name" THEN name ELSE value]

NameDateRow(name, date) ==
  [c \in Range(NameDateCols) |-> IF c = "Stn_Name" THEN name ELSE date]

\* A frame as the spreadsheet reader builds it: a column without a string is
\* int64 (integers only) or float64 (floats and nan), never integers and nan.
ValidFrame(frame) ==
  \A c \in Range(frame.cols) :
    LET kinds == {frame.rows[i][c].k : i \in 1..Len(frame.rows)} IN
      "str" \in kinds \/ kinds = {"int"} \/ kinds \subseteq {"float", "nan"}

Frames(cols, rowset) ==
  {f \in {[cols |-> cols, rows |-> rows] :
            rows \in UNION {[1..n -> rowset] : n \in 1..MaxBatch}} :
     ValidFrame(f)}

DataTypes == {"DSA", "RRAS", "REACTIVE", "REA", "RTA", "SCED"}

\* The sheets a data type's site can publish.
Batches(dt) ==
  IF dt = "DSA" THEN
    Frames(StnCols, {StnRow(S(TA), S(TDay), I(T10)),
                     StnRow(S(TA), S(TDay), I(T12)),
                     StnRow(S(TB), S(TDay), I(T5))})
  ELSE IF dt = "RRAS" THEN
    Frames(StnDateCols, {StnDateRow(S(TA), S(TDay), S(T1), I(T10)),
                         StnDateRow(S(TASpace), S(TDay), S(T1), I(T12)),
                         StnDateRow(S(TA), S(TDay), S(T2), I(T12))})
  ELSE IF dt = "REACTIVE" THEN
    Frames(DateCols, {DateRow(I(T1), I(T10)),
                      DateRow(S(T1), I(T12)),
                      DateRow(NaN, I(T5))})
  ELSE IF dt = "REA" THEN
    Frames(DateCols, {DateRow(S(T01), I(T10)),
                      DateRow(S(T1), I(T12)),
                      DateRow(S(T2), I(T5))})
  ELSE IF dt = "RTA" THEN
    Frames(StnCols, {StnRow(NaN, S(TDay), I(T10)),
                     StnRow(S(TA), NaN, I(T12)),
                     StnRow(NaN, S(TDay), I(T5))})
  ELSE
    Frames(NameCols, {NameRow(S(TA), I(T10)), NameRow(S(TA), I(T12))})
    \cup Frames(NameDateCols, {NameDateRow(S(TA), S(T1)), NameDateRow(S(TB), NaN)})

----------------------------------------------------------------------------
(* State machine *)

Logged(level, msg) == [level |-> level, msg |-> msg]

\* the merge before its first call
InitMerge ==
  /\ master_csv = NoFile
  /\ calls = 0
  /\ df = EmptyFrame
  /\ pre_master = EmptyFrame
  /\ key_columns = <<>>
  /\ final_df = <<>>
  /\ master_df = EmptyFrame
  /\ added_records = <<>>
  /\ updated_records = <<>>
  /\ log = {}
  /\ result = TRUE
  /\ data_type \in DataTypes

\* process_dataframe(df, data_type, file_info)
ProcessDataframe(batch) ==
  /\ calls < MaxCalls
  /\ \E loaded \in {IF master_csv.exists THEN ReadCsv(master_csv) ELSE EmptyFrame} :
     \E keys \in {KeyColumns(batch.cols)} :
     \E fin \in {IF keys # <<>> THEN DropDuplicates(batch.rows, keys) ELSE batch.rows} :
     \E acc \in {UpdateLoop([m |-> loaded, added |-> <<>>, updated |-> <<>>],
                            fin, batch.cols, keys)} :
       LET sorts == ~IsEmpty(acc.m) /\ keys # <<>>
           raises == sorts /\ Unorderable(acc.m.rows, keys)
           infos == {Logged("info", IF master_csv.exists THEN "Loaded existing master CSV"
                                    ELSE "Creating new master CSV file")}
                    \cup (IF keys # <<>> THEN {Logged("info", "Removed duplicates")} ELSE {})
       IN /\ calls' = calls + 1
          /\ df' = batch
          /\ pre_master' = loaded
          /\ key_columns' = keys
          /\ final_df' = fin
          /\ added_records' = acc.added
          /\ updated_records' = acc.updated
          /\ UNCHANGED <<data_type, ledgerVars, writerVars, cleanerVars, restVars>>
          /\ IF raises
             THEN /\ master_df' = acc.m
                  /\ master_csv' = master_csv
                  /\ log' = infos \cup {Logged("error", "Error processing dataframe")}
                  /\ result' = FALSE
             ELSE /\ \E rows \in (IF sorts THEN SortValues(acc.m.rows, keys)
                                  ELSE {acc.m.rows}) :
                       master_df' = [cols |-> acc.m.cols, rows |-> rows]
                  /\ master_csv' = ToCsv(master_df')
                  /\ log' = infos
                       \cup {Logged("info", "CHANGES SUMMARY"),
                             Logged("info", "Master CSV now contains records")}
                       \cup (IF acc.updated # <<>>
                             THEN {Logged("info", "Updated records")} ELSE {})
                       \cup (IF acc.added # <<>>
                             THEN {Logged("info", "Added new records")} ELSE {})
                  /\ result' = TRUE

Next == \E batch \in Batches(data_type) : ProcessDataframe(batch)

----------------------------------------------------------------------------
(* Vocabulary of the properties *)

\* a call has been made and it returned True
Merged == calls > 0 /\ result

\* the key of a row as the tuple of its key cells' strings
KeyText(row, keys) == [i \in 1..Len(keys) |-> Str(Cell(row, keys[i]))]

HasKeyColumns(frame, keys) == \A c \in Range(keys) : c \in Range(frame.cols)

\* the master had rows and every key column when the call began
LookupAtStart == ~IsEmpty(pre_master) /\ HasKeyColumns(pre_master, key_columns)

Count(seq, x) == Cardinality({i \in 1..Len(seq) : seq[i] = x})

SameBag(s1, s2) ==
  /\ Len(s1) = Len(s2)
  /\ \A x \in Range(s1) \cup Range(s2) : Count(s1, x) = Count(s2, x)

\* the elements of a sequence at the positions a predicate holds, in order
RECURSIVE Pick(_, _)
Pick(seq, keep) ==
  IF seq = <<>> THEN <<>>
  ELSE (IF keep[1] THEN <<seq[1]>> ELSE <<>>)
       \o Pick(Tail(seq), [i \in 1..(Len(seq) - 1) |-> keep[i + 1]])

\* a row as the written master holds it: key cells as strings, nan in the
\* columns the row does not have
Stored(row) ==
  [c \in Range(master_df.cols) |->
     IF c \in Range(key_columns) THEN S(Str(Cell(row, c))) ELSE Cell(row, c)]

\* Row i of the deduplicated batch meets a row with its key: one of the
\* master, or an earlier row of the batch.
MeetsKey(i) ==
  LET k == KeyText(final_df[i], key_columns) IN
    \/ \E n \in 1..Len(pre_master.rows) : KeyText(pre_master.rows[n], key_columns) = k
    \/ \E j \in 1..(i - 1) : KeyText(final_df[j], key_columns) = k

\* the record keys of the rows of the deduplicated batch a predicate selects
KeysWhere(sel) ==
  Pick([i \in 1..Len(final_df) |-> RecordKey(final_df[i], key_columns)], sel)

\* the batch keys, as strings
BatchKeys == {KeyText(final_df[i], key_columns) : i \in 1..Len(final_df)}

\* the rows of the batch that are the last with their key string
LastOfKey(i) ==
  ~ \E j \in (i + 1)..Len(final_df) :
        KeyText(final_df[j], key_columns) = KeyText(final_df[i], key_columns)

\* the master rows no batch row has the key of
Survivors ==
  Pick(pre_master.rows,
       [n \in 1..Len(pre_master.rows) |->
          KeyText(pre_master.rows[n], key_columns) \notin BatchKeys])

StoredAll(rows) == [i \in 1..Len(rows) |-> Stored(rows[i])]

----------------------------------------------------------------------------
(* C1 *)

ScenarioMaster == <<StnRow(S(TA), S(TDay), I(T10))>>
ScenarioBatch == <<StnRow(S(TA), S(TDay), I(T12)), StnRow(S(TB), S(TDay), I(T5))>>
InScenario ==
  /\ Merged
  /\ pre_master = [cols |-> StnCols, rows |-> ScenarioMaster]
  /\ df = [cols |-> StnCols, rows |-> ScenarioBatch]

\* C1: when the master is non-empty and has every key column, each row of the
\* deduplicated batch that meets a row with its key is recorded in
\* updated_records and replaces the rows with that key, each other row is
\* recorded in added_records, and all of them are in the master; the
\* scenario master [(A,2024-01-01,10)], batch [(A,2024-01-01,12),
\* (B,2024-01-01,5)] gives [(A,..,12),(B,..,5)], added [B], updated [A].
C1_MergeClassification ==
  (Merged /\ LookupAtStart) =>
    /\ updated_records = KeysWhere([i \in 1..Len(final_df) |-> MeetsKey(i)])
    /\ added_records = KeysWhere([i \in 1..Len(final_df) |-> ~MeetsKey(i)])
    /\ SameBag(master_df.rows,
               StoredAll(Survivors)
               \o StoredAll(Pick(final_df, [i \in 1..Len(final_df) |-> LastOfKey(i)])))
    /\ InScenario =>
         /\ master_df.rows = ScenarioBatch
         /\ added_records = <<TB \o <<"_">> \o TDay>>
         /\ updated_records = <<TA \o <<"_">> \o TDay>>

C1_Witness ==
  /\ InScenario
  /\ updated_records # <<>>
  /\ added_records # <<>>

----------------------------------------------------------------------------
(* C2 *)

\* a master row as it was: key cells equal as strings, the others equal
Unchanged(old, new) ==
  \A c \in DOMAIN old :
    IF c \in Range(key_columns) THEN Str(new[c]) = Str(old[c]) ELSE new[c] = old[c]

\* A row of the master has the key of a batch row.  A master without the
\* key columns has no keys.
KeyInBatch(old) ==
  /\ HasKeyColumns(pre_master, key_columns)
  /\ KeyText(old, key_columns) \in BatchKeys

\* C2: every row of the pre-merge master whose key does not occur in the
\* batch is in the post-merge master with its values unchanged.
C2_Conservation ==
  Merged =>
    \A n \in 1..Len(pre_master.rows) :
      LET old == pre_master.rows[n] IN
        ~KeyInBatch(old) =>
          Cardinality({j \in 1..Len(master_df.rows) : Unchanged(old, master_df.rows[j])})
            >= Count(pre_master.rows, old)

----------------------------------------------------------------------------
(* C3 *)

\* C3: merging the batch that was just merged once more leaves the master
\* as it was (same rows, same order) and records no added key.
C3_Idempotence ==
  [][(Merged /\ result' /\ df' = df) =>
       /\ ReadCsv(master_csv') = ReadCsv(master_csv)
       /\ added_records' = <<>>]_vars

----------------------------------------------------------------------------
(* C4 *)

\* row i of the batch has the key-column values of a later row
Superseded(i) ==
  \E j \in (i + 1)..Len(df.rows) : SameRawKey(df.rows[i], df.rows[j], key_columns)

\* the forms in which the merge stores a batch row
StoredForms(row) ==
  {Stored(row), [c \in Range(master_df.cols) |-> Cell(row, c)]}

\* C4: of the batch rows that share their key-column values only the one
\* with the highest index is merged: the earlier ones are not in the master
\* and the key is recorded once.
C4_DedupBeforeMerge ==
  Merged =>
    /\ final_df = Pick(df.rows, [i \in 1..Len(df.rows) |-> ~Superseded(i)])
    /\ Len(added_records) + Len(updated_records) =
         Cardinality({i \in 1..Len(df.rows) : ~Superseded(i)})
    /\ \A i \in 1..Len(df.rows) :
         Superseded(i) =>
           \A j \in 1..Len(master_df.rows) :
             master_df.rows[j] \in StoredForms(df.rows[i]) =>
               \/ \E k \in 1..Len(df.rows) :
                    ~Superseded(k) /\ master_df.rows[j] \in StoredForms(df.rows[k])
               \/ \E n \in 1..Len(pre_master.rows) :
                    master_df.rows[j] \in StoredForms(pre_master.rows[n])

\* a batch with two rows of one key and different values has been merged
C4_Witness ==
  /\ Merged
  /\ \E i \in 1..Len(df.rows) :
       Superseded(i) /\ \A k \in 1..Len(df.rows) : k # i => df.rows[k] # df.rows[i]
  /\ Len(final_df) < Len(df.rows)

----------------------------------------------------------------------------
(* C5 *)

\* the key the priority rule gives a column list
PriorityKey(cols) ==
  CASE {"Stn_Name", "Stn_DC_Date"} \subseteq Range(cols) -> <<"Stn_Name", "Stn_DC_Date">>
    [] ~({"Stn_Name", "Stn_DC_Date"} \subseteq Range(cols)) /\ "Date" \in Range(cols) -> <<"Date">>
    [] OTHER -> cols

\* C5: the key is the station-name and record-date pair when both columns
\* exist (also beside a Date column), else Date when it exists, else all
\* columns; process_weekly_dataframe resolves the same key.
C5_KeyResolution ==
  calls > 0 =>
    /\ key_columns = PriorityKey(df.cols)
    /\ WeeklyKeyColumns(df.cols) = key_columns

\* the pair was chosen although the batch has a Date column
C5_Witness ==
  /\ calls > 0
  /\ "Date" \in Range(df.cols)
  /\ key_columns = <<"Stn_Name", "Stn_DC_Date">>

----------------------------------------------------------------------------
(* C6 *)

\* the key of a row as trimmed strings
TrimKey(row, keys) == [i \in 1..Len(keys) |-> Strip(Str(Cell(row, keys[i])))]

\* C6: rows whose key values are equal as trimmed strings have one key, in
\* the deduplication of the batch and in the lookup in the master.
C6_TrimmedStringKeys ==
  Merged =>
    /\ Len(final_df) =
         Cardinality({TrimKey(df.rows[i], key_columns) : i \in 1..Len(df.rows)})
    /\ LookupAtStart =>
         \A i \in 1..Len(final_df) : \A n \in 1..Len(pre_master.rows) :
           TrimKey(pre_master.rows[n], key_columns) = TrimKey(final_df[i], key_columns)
             => /\ RecordKey(final_df[i], key_columns) \in Range(updated_records)
                /\ Cardinality({j \in 1..Len(master_df.rows) :
                                  TrimKey(master_df.rows[j], key_columns)
                                    = TrimKey(final_df[i], key_columns)}) = 1

----------------------------------------------------------------------------
(* C7 *)

\* the batch has neither the station pair nor a Date column
WholeRowKey ==
  /\ ~({"Stn_Name", "Stn_DC_Date"} \subseteq Range(df.cols))
  /\ "Date" \notin Range(df.cols)

\* C7 as claimed: with the whole-row key every row of the deduplicated batch
\* is classified as added and none as updated.
C7_AllAdded ==
  (Merged /\ WholeRowKey) =>
    /\ updated_records = <<>>
    /\ added_records = KeysWhere([i \in 1..Len(final_df) |-> TRUE])

\* the lookup runs for row i: the master had rows and the key columns when
\* the call began, or an earlier row of the batch has been appended
Active(i) == i > 1 \/ LookupAtStart

\* C7 as amended: with the whole-row key a row of the deduplicated batch is
\* classified as updated when the master holds, as the row is processed, a
\* row equal to it as strings in every batch column, and as added otherwise.
C7_WholeRowClassification ==
  (Merged /\ WholeRowKey) =>
    /\ key_columns = df.cols
    /\ updated_records =
         KeysWhere([i \in 1..Len(final_df) |-> Active(i) /\ MeetsKey(i)])
    /\ added_records =
         KeysWhere([i \in 1..Len(final_df) |-> ~(Active(i) /\ MeetsKey(i))])

\* a whole-row batch row equal to a master row has been merged, and one
\* that differs from every master row
C7_Witness ==
  /\ Merged /\ WholeRowKey /\ LookupAtStart
  /\ updated_records # <<>>
  /\ \E i \in 1..Len(final_df) : \E n \in 1..Len(pre_master.rows) :
       \A c \in Range(df.cols) : pre_master.rows[n][c] = final_df[i][c]
  /\ \E i \in 1..Len(final_df) : ~MeetsKey(i)

----------------------------------------------------------------------------
(* C8 *)

\* C8: when the master is empty or lacks a key column as the merge begins,
\* every row of the deduplicated batch is recorded as added, none as updated,
\* and no row of the master is removed.
C8_NoLookupAllAdded ==
  (Merged /\ ~LookupAtStart) =>
    /\ updated_records = <<>>
    /\ added_records = KeysWhere([i \in 1..Len(final_df) |-> TRUE])
    /\ \A n \in 1..Len(pre_master.rows) :
         Cardinality({j \in 1..Len(master_df.rows) :
                        Unchanged(pre_master.rows[n], master_df.rows[j])})
           >= Count(pre_master.rows, pre_master.rows[n])

----------------------------------------------------------------------------
(* C9 *)

Ascending(rows, keys) ==
  \A i, j \in 1..Len(rows) : i < j => ~KeyLess(rows[j], rows[i], keys)

HasKey(rows, k) == [i \in 1..Len(rows) |-> KeyText(rows[i], key_columns) = k]

\* C9: after a merge the master is sorted ascending by the key columns and
\* the rows with one key keep their relative order.
C9_SortedStable ==
  (Merged /\ key_columns # <<>>) =>
    /\ Ascending(master_df.rows, key_columns)
    /\ \A n \in 1..Len(pre_master.rows) :
         LET k == KeyText(pre_master.rows[n], key_columns) IN
           ~KeyInBatch(pre_master.rows[n]) /\ HasKeyColumns(pre_master, key_columns) =>
             Pick(master_df.rows, HasKey(master_df.rows, k))
               = StoredAll(Pick(pre_master.rows, HasKey(pre_master.rows, k)))

----------------------------------------------------------------------------
(* C10 *)

\* several rows of the master have the key of row i of the batch
MultipleMatch(i) ==
  /\ LookupAtStart
  /\ Cardinality({n \in 1..Len(pre_master.rows) :
                    KeyText(pre_master.rows[n], key_columns)
                      = KeyText(final_df[i], key_columns)}) > 1

\* no other row of the batch has the key string of row i
OnlyOfKey(i) ==
  \A j \in 1..Len(final_df) :
    j # i => KeyText(final_df[j], key_columns) # KeyText(final_df[i], key_columns)

\* C10: when several master rows match one batch row they are all replaced
\* by that row, the key is recorded once in updated_records, and a warning
\* is logged.
C10_MultipleMatchWarned ==
  Merged =>
    \A i \in 1..Len(final_df) :
      (MultipleMatch(i) /\ OnlyOfKey(i)) =>
        /\ Pick(master_df.rows,
                HasKey(master_df.rows, KeyText(final_df[i], key_columns)))
             = <<Stored(final_df[i])>>
        /\ Count(updated_records, RecordKey(final_df[i], key_columns)) = 1
        /\ \E entry \in log : entry.level = "warning"

----------------------------------------------------------------------------
(* C11 *)

\* a key cell of the row is missing
MissingKey(row) == \E c \in Range(key_columns) : Cell(row, c).k = "nan"

\* two rows are missing in the same key cells
SameMissing(r1, r2) ==
  \A c \in Range(key_columns) : (Cell(r1, c).k = "nan") <=> (Cell(r2, c).k = "nan")

----------------------------------------------------------------------------
(* C27 *)

\* no two rows have the same key-column values, compared as strings
UniqueKeys(rows, keys) ==
  \A i, j \in 1..Len(rows) : KeyText(rows[i], keys) = KeyText(rows[j], keys) => i = j

\* the master the call loaded had every key column and no key twice
UniqueBefore ==
  /\ calls > 0
  /\ HasKeyColumns(pre_master, key_columns)
  /\ UniqueKeys(pre_master.rows, key_columns)

\* C27: when the master has every key column and no two of its rows have
\* the same key, compared as strings, then after process_dataframe no two
\* rows of the master have the same key: in the frame the call built and in
\* the master CSV as the next call loads it; also for keys that differ by
\* type only (the number 1 and the string '1').
C27_KeyUniqueness ==
  UniqueBefore =>
    /\ UniqueKeys(master_df.rows, key_columns)
    /\ UniqueKeys(ReadCsv(master_csv).rows, key_columns)

----------------------------------------------------------------------------
(* C28 *)

\* the record keys of the deduplicated batch
BatchRecordKeys == [i \in 1..Len(final_df) |-> RecordKey(final_df[i], key_columns)]

\* the row is in the master the call built
InMaster(row) == \E j \in 1..Len(master_df.rows) : master_df.rows[j] \in StoredForms(row)

\* the rows of the pre-merge master that have the key of a batch row
RemovedMatches ==
  Cardinality({n \in 1..Len(pre_master.rows) : KeyInBatch(pre_master.rows[n])})

\* C28: after a call of process_dataframe that does not fail every row of
\* the deduplicated batch is recorded once, in addedKeys or in updatedKeys,
\* every such row is in the resulting master, and the master has the rows
\* it had, less the removed matches, plus the deduplicated batch.
C28_MergeAccounting ==
  Merged =>
    /\ Len(added_records) + Len(updated_records) = Len(final_df)
    /\ SameBag(added_records \o updated_records, BatchRecordKeys)
    /\ \A i \in 1..Len(final_df) : InMaster(final_df[i])
    /\ Len(master_df.rows) = Len(pre_master.rows) - RemovedMatches + Len(final_df)

----------------------------------------------------------------------------
(* The change ledger: the JSON file and the dictionary it holds *)

\* Python's None; a hash that could not be computed
None == <<>>

\* hashlib.md5(content).hexdigest()
Md5(content) == <<"md5", content>>

\* The text of a JSON file is a sequence of tokens: the braces of the
\* top-level object and one token for each "key": value member.
TokOpen == [t |-> "{"]
TokClose == [t |-> "}"]
TokList == [t |-> "[]"]
TokPair(k, v) == [t |-> "pair", key |-> k, value |-> v]

\* a JSON value that is a string, where an entry record was expected
JsonString == [json |-> "string"]

\* the value is a dict (it has .get and item access by name)
IsDict(v) == "json" \notin DOMAIN v

\* A Python dict keeps its items in insertion order.
EmptyDict == [kind |-> "dict", items |-> <<>>]
EmptyList == [kind |-> "list", items |-> <<>>]

DictHas(d, k) == \E i \in 1..Len(d.items) : d.items[i].key = k

DictIndex(d, k) == CHOOSE i \in 1..Len(d.items) : d.items[i].key = k

DictGet(d, k) == d.items[DictIndex(d, k)].value

DictKeys(d) == {d.items[i].key : i \in 1..Len(d.items)}

\* a dictionary that ignores the assignment d[k] = v
DictKeep(d, k, v) == d

\* a dictionary that forgets its other items at the assignment d[k] = v
DictOnly(d, k, v) == [d EXCEPT !.items = <<[key |-> k, value |-> v]>>]

\* d[k] = v
DictSet(d, k, v) ==
  IF DictHas(d, k)
  THEN [d EXCEPT !.items[DictIndex(d, k)].value = v]
  ELSE [d EXCEPT !.items = Append(@, [key |-> k, value |-> v])]

\* json.dump(tracking_data, f, indent=2): the tokens in the order written
JsonDump(d) ==
  IF d.kind = "list" THEN <<TokList>>
  ELSE <<TokOpen>>
       \o [i \in 1..Len(d.items) |-> TokPair(d.items[i].key, d.items[i].value)]
       \o <<TokClose>>

RECURSIVE PairsToDict(_)
PairsToDict(pairs) ==
  IF pairs = <<>> THEN EmptyDict
  ELSE DictSet(PairsToDict(SubSeq(pairs, 1, Len(pairs) - 1)),
               pairs[Len(pairs)].key, pairs[Len(pairs)].value)

\* json.load(f): the value of a complete text, an error for any other text
JsonLoad(text) ==
  IF text = <<TokList>> THEN [ok |-> TRUE, value |-> EmptyList]
  ELSE IF /\ Len(text) >= 2
          /\ text[1] = TokOpen
          /\ text[Len(text)] = TokClose
          /\ \A i \in 2..(Len(text) - 1) : text[i].t = "pair"
       THEN [ok |-> TRUE, value |-> PairsToDict(SubSeq(text, 2, Len(text) - 1))]
       ELSE [ok |-> FALSE, value |-> EmptyDict]

NoLedgerFile == [exists |-> FALSE, text |-> <<>>]

LedgerFile(text) == [exists |-> TRUE, text |-> text]

\* load_file_tracking(): the dictionary and what was logged
LoadFileTracking(file) ==
  IF file.exists /\ JsonLoad(file.text).ok
  THEN [data |-> JsonLoad(file.text).value, log |-> {}]
  ELSE [data |-> EmptyDict,
        log |-> IF file.exists
                THEN {Logged("warning", "Error loading tracking file")} ELSE {}]

\* save_file_tracking(tracking_data): open(TRACKING_FILE, 'w') and json.dump
SaveFileTracking(tracking_data) == LedgerFile(JsonDump(tracking_data))

\* The file a process leaves that is killed inside save_file_tracking after
\* open() has truncated it and n tokens have reached the disk.
KilledInSave(tracking_data, n) == LedgerFile(SubSeq(JsonDump(tracking_data), 1, n))

----------------------------------------------------------------------------
(* dsm-data.py: the site, the scraper and scheduled_update *)

\* scheduled_update runs and ERPC calls in one behaviour
MaxRuns == 2

\* versions of the content of one URL
MaxVersion == 2

\* the contents a URL can serve, by version
Contents == 1..MaxVersion

\* the supporting files the government site links to
U1 == "wk15/Supporting_files.xls"
U2 == "wk16/Supporting_files.xls"
Urls == {U1, U2}

\* the local reference file, listed when the site gives no file
RefUrl == "file://reference"

\* Two of the base_urls; the other two are fetched in the same try block.
BaseUrls == <<"comm/dsa.html", "comm/">>

\* the links a base page shows: the first week is linked from both pages
PageLinks(base_url) == IF base_url = "comm/dsa.html" THEN <<U1>> ELSE <<U1, U2>>

\* How the fetch and parse of a base page ends: without error, with a
\* requests.RequestException (network error, status, timeout), or with
\* another exception (urljoin raises ValueError on an href like 'http://[').
PageOutcomes == {"ok", "RequestException", "ValueError"}

FileInfo(href, url, week) ==
  [href |-> href, text |-> "Supporting files", url |-> url, type |-> "excel",
   week |-> week]

ReferenceEntry == FileInfo("reference", RefUrl, "Reference")

\* for base_url in base_urls: try ... except requests.RequestException
RECURSIVE ScrapePages(_, _)
ScrapePages(i, pages) ==
  IF i > Len(BaseUrls) THEN [raised |-> FALSE, files |-> <<>>, log |-> {}]
  ELSE IF pages[i] = "ValueError" THEN [raised |-> TRUE, files |-> <<>>, log |-> {}]
  ELSE LET rest == ScrapePages(i + 1, pages)
           links == PageLinks(BaseUrls[i])
           found == IF pages[i] = "ok"
                    THEN [k \in 1..Len(links) |-> FileInfo(links[k], links[k], "Unknown")]
                    ELSE <<>>
           warned == IF pages[i] = "ok" THEN {}
                     ELSE {Logged("warning", "Error accessing base url")}
       IN [raised |-> rest.raised,
           files |-> found \o rest.files,
           log |-> warned \cup rest.log]

\* scrape_government_website(): categorized_files['DSA'], or an exception
ScrapeGovernmentWebsite(pages) ==
  LET scraped == ScrapePages(1, pages) IN
    IF ~scraped.raised /\ scraped.files = <<>>
    THEN [scraped EXCEPT
            !.files = <<ReferenceEntry>>,
            !.log = @ \cup {Logged("warning", "No supporting files found for any week")}]
    ELSE scraped

\* How the requests for one listed file end: both succeed, the request of
\* get_file_hash fails, or download_and_process_file fails.  A run has one
\* outcome for every file of the list, in the order of the list.
UrlOutcomes == {"ok", "hash fails", "processing fails"}

\* get_file_hash(url): None when the request fails
GetFileHash(url, outcome) ==
  IF url \in Urls /\ outcome = "hash fails" THEN None ELSE Md5(remote[url])

\* file_key = f"{data_type}_{file_url}"
FileKey(dt, url) == <<dt, "_", url>>

\* the entry scheduled_update records
Entry(file_hash, now, url, type) ==
  [hash |-> file_hash, last_updated |-> now, url |-> url, type |-> type]

\* what the loop did with one file_info
Checked(file_info, file_hash, changed, success) ==
  [url |-> file_info.url, hash |-> file_hash, changed |-> changed,
   success |-> success]

\* One iteration of "for file_info in files".  tracking_data.get(file_key,
\* {}).get('hash') raises AttributeError when tracking_data is a list or the
\* entry is not a dict.
CheckFile(acc, file_info, outcome, now) ==
  LET file_url == file_info.url
      file_hash == GetFileHash(file_url, outcome)
      file_key == FileKey("DSA", file_url)
      has == acc.tracking.kind = "dict" /\ DictHas(acc.tracking, file_key)
  IN IF acc.raised THEN acc
     ELSE IF file_hash = None
     THEN [acc EXCEPT
             !.checks = Append(@, Checked(file_info, None, FALSE, FALSE)),
             !.log = @ \cup {Logged("warning", "Could not get hash")}]
     ELSE IF acc.tracking.kind # "dict" \/ (has /\ ~IsDict(DictGet(acc.tracking, file_key)))
     THEN [acc EXCEPT !.raised = TRUE]
     ELSE LET previous_hash == IF has THEN DictGet(acc.tracking, file_key).hash ELSE None
              success == ~(file_url \in Urls /\ outcome = "processing fails")
          IN IF previous_hash # file_hash
             THEN [acc EXCEPT
                     !.tracking = DictSet(@, file_key,
                                          Entry(file_hash, now, file_url, file_info.type)),
                     !.checks = Append(@, Checked(file_info, file_hash, TRUE, success)),
                     !.log = @ \cup {Logged("info", "Change detected"),
                                    IF success THEN Logged("info", "Successfully processed")
                                    ELSE Logged("error", "Failed to process")}]
             ELSE [acc EXCEPT
                     !.checks = Append(@, Checked(file_info, file_hash, FALSE, FALSE))]

RECURSIVE CheckLoop(_, _, _, _)
CheckLoop(acc, files, status, now) ==
  IF files = <<>> THEN acc
  ELSE CheckLoop(CheckFile(acc, Head(files), Head(status), now),
                 Tail(files), Tail(status), now)

\* the outcomes of the files a run lists
Statuses(pages) ==
  [1..Len(ScrapeGovernmentWebsite(pages).files) -> UrlOutcomes]

\* scheduled_update() up to the call of save_file_tracking
UpdateRun(pages, status, now) ==
  LET loaded == LoadFileTracking(tracking_file)
      scraped == ScrapeGovernmentWebsite(pages)
      acc == CheckLoop([tracking |-> loaded.data, checks |-> <<>>, raised |-> FALSE,
                        log |-> loaded.log \cup scraped.log],
                       IF scraped.raised THEN <<>> ELSE scraped.files, status, now)
      aborted == scraped.raised \/ acc.raised
  IN [now |-> now,
      before |-> tracking_file,
      loaded |-> loaded.data,
      pages |-> pages,
      status |-> status,
      files |-> scraped.files,
      checks |-> acc.checks,
      tracking |-> acc.tracking,
      aborted |-> aborted,
      saved |-> ~aborted,
      killed |-> FALSE,
      log |-> IF aborted
              THEN acc.log \cup {Logged("error", "Error during scheduled update")}
              ELSE acc.log]

NoRun ==
  [now |-> 0, before |-> NoLedgerFile, loaded |-> EmptyDict, pages |-> <<>>,
   status |-> <<>>, files |-> <<>>, checks |-> <<>>, tracking |-> EmptyDict, aborted |-> FALSE,
   saved |-> FALSE, killed |-> FALSE, log |-> {}]

----------------------------------------------------------------------------
(* erpc_extractor.py: check_for_changes and download_and_process_file *)

\* The files scrape_erpc_website lists: href and URL.  The page of the
\* accounts and a subdirectory page both link a file by the relative href
\* DSM_a.xlsx.
A1 == [href |-> "DSM_a.xlsx", url |-> "accts/DSM_a.xlsx", type |-> "excel"]
A2 == [href |-> "DSM_a.xlsx", url |-> "dsm/DSM_a.xlsx", type |-> "excel"]
B1 == [href |-> "DSM_b.xlsx", url |-> "accts/DSM_b.xlsx", type |-> "excel"]
ErpcFiles == {A1, A2, B1}

ErpcUrls == {f.url : f \in ErpcFiles}
Hrefs == {f.href : f \in ErpcFiles}

\* a file named like the href in DOWNLOAD_DIR, ERLDC_DIR or NRLDC_DIR, or none
LocalFile(content) == [exists |-> TRUE, content |-> content]
NoLocalFile == [exists |-> FALSE, content |-> 1]

\* How the steps after the change check end.
ErpcOutcomes == {"ok", "download failed", "no data", "save failed"}

\* the entry download_and_process_file records
ErpcEntry(file_hash, now, dt, url) ==
  [hash |-> file_hash, last_processed |-> now, type |-> dt, url |-> url]

\* check_for_changes(file_info, tracking_data): True, False, or a TypeError
\* from tracking_data[filename]['hash'] when the entry is not a dict
CheckForChanges(file_info, tracking_data) ==
  LET filename == file_info.href
      current_hash == IF local_files[filename].exists
                      THEN Md5(local_files[filename].content) ELSE None
  IN IF tracking_data.kind = "dict" /\ DictHas(tracking_data, filename)
     THEN IF current_hash = None THEN [raised |-> FALSE, changed |-> TRUE]
          ELSE IF ~IsDict(DictGet(tracking_data, filename))
          THEN [raised |-> TRUE, changed |-> FALSE]
          ELSE [raised |-> FALSE,
                changed |-> DictGet(tracking_data, filename).hash # current_hash]
     ELSE [raised |-> FALSE, changed |-> TRUE]

\* download_and_process_file(file_info, data_type) of the ERPC script
ErpcCall(file_info, outcome, now) ==
  LET loaded == LoadFileTracking(erpc_tracking_file)
      check == CheckForChanges(file_info, loaded.data)
      process == ~check.raised /\ check.changed
      downloaded == process /\ outcome # "download failed"
      written == process /\ outcome = "ok"
      \* tracking_data[filename] = {...} raises TypeError on a list
      raised == check.raised \/ (written /\ loaded.data.kind # "dict")
      tracking == IF written /\ ~raised
                  THEN DictSet(loaded.data, file_info.href,
                               ErpcEntry(Md5(remote[file_info.url]), now, "DSA",
                                         file_info.url))
                  ELSE loaded.data
  IN [now |-> now,
      file |-> file_info,
      served |-> remote[file_info.url],
      before |-> erpc_tracking_file,
      loaded |-> loaded.data,
      changed |-> check.changed,
      downloaded |-> downloaded,
      written |-> written,
      tracking |-> tracking,
      saved |-> written /\ ~raised,
      result |-> IF raised THEN "raised"
                 ELSE IF ~process \/ outcome = "ok" THEN "True" ELSE "False",
      log |-> loaded.log]

NoCall ==
  [now |-> 0, file |-> A1, served |-> 1, before |-> NoLedgerFile,
   loaded |-> EmptyDict, changed |-> FALSE, downloaded |-> FALSE,
   written |-> FALSE, tracking |-> EmptyDict, saved |-> FALSE,
   result |-> "True", log |-> {}]

----------------------------------------------------------------------------
(* State machine of the ledger *)

AllUrls == Urls \cup {RefUrl} \cup ErpcUrls

NoLocalFiles == [h \in Hrefs |-> NoLocalFile]

\* The ledger files a script can find when it is started: none, a truncated
\* file, a JSON list, and an object whose member is a string.
StartLedgers(key) ==
  {NoLedgerFile,
   LedgerFile(<<TokOpen>>),
   LedgerFile(<<TokList>>),
   LedgerFile(<<TokOpen, TokPair(key, JsonString), TokClose>>)}

\* the scripts of the ledger have not been started
LedgerIdle ==
  /\ program = "none"
  /\ tracking_file = NoLedgerFile
  /\ erpc_tracking_file = NoLedgerFile
  /\ local_files = NoLocalFiles
  /\ remote = [u \in AllUrls |-> 1]
  /\ clock = 0
  /\ last_run = NoRun
  /\ erpc_call = NoCall

\* one of the two scripts is started
LedgerStart ==
  /\ program \in {"dsm-data", "erpc"}
  /\ tracking_file \in IF program = "dsm-data"
                       THEN StartLedgers(FileKey("DSA", U2)) ELSE {NoLedgerFile}
  /\ erpc_tracking_file \in IF program = "erpc"
                            THEN StartLedgers(A1.href) ELSE {NoLedgerFile}
  /\ local_files \in IF program = "erpc"
                     THEN {NoLocalFiles, [NoLocalFiles EXCEPT ![A1.href] = LocalFile(1)]}
                     ELSE {NoLocalFiles}
  /\ remote = [u \in AllUrls |-> 1]
  /\ clock = 0
  /\ last_run = NoRun
  /\ erpc_call = NoCall

\* scheduled_update() of dsm-data.py
ScheduledUpdate(pages, status) ==
  /\ program = "dsm-data"
  /\ clock < MaxRuns
  /\ \E r \in {UpdateRun(pages, status, clock + 1)} :
    /\ clock' = clock + 1
    /\ last_run' = r
    /\ tracking_file' = IF r.saved THEN SaveFileTracking(r.tracking) ELSE tracking_file
    /\ UNCHANGED <<program, remote, erpc_tracking_file, local_files, erpc_call,
                   mergeVars, writerVars, cleanerVars, restVars>>

\* scheduled_update() of a process that is killed inside save_file_tracking
ScheduledUpdateKilled(pages, status) ==
  /\ program = "dsm-data"
  /\ clock < MaxRuns
  /\ \E r \in {UpdateRun(pages, status, clock + 1)} :
    /\ r.saved
    /\ \E n \in 0..(Len(JsonDump(r.tracking)) - 1) :
         tracking_file' = KilledInSave(r.tracking, n)
    /\ clock' = clock + 1
    /\ last_run' = [r EXCEPT !.saved = FALSE, !.killed = TRUE]
    /\ UNCHANGED <<program, remote, erpc_tracking_file, local_files, erpc_call,
                   mergeVars, writerVars, cleanerVars, restVars>>

\* the site replaces the content of a URL by its next version
Publish(url) ==
  /\ url \in (IF program = "dsm-data" THEN Urls ELSE ErpcUrls)
  /\ clock < MaxRuns
  /\ remote[url] < MaxVersion
  /\ remote' = [remote EXCEPT ![url] = @ + 1]
  /\ UNCHANGED <<program, tracking_file, clock, last_run, erpc_tracking_file,
                 local_files, erpc_call, mergeVars, writerVars, cleanerVars, restVars>>

\* download_and_process_file(file_info, data_type) of erpc_extractor.py
ErpcDownloadAndProcessFile(file_info, outcome) ==
  /\ program = "erpc"
  /\ clock < MaxRuns
  /\ \E c \in {ErpcCall(file_info, outcome, clock + 1)} :
    /\ clock' = clock + 1
    /\ erpc_call' = c
    /\ erpc_tracking_file' = IF c.saved THEN SaveFileTracking(c.tracking)
                             ELSE erpc_tracking_file
    /\ UNCHANGED <<program, remote, tracking_file, last_run, local_files,
                   mergeVars, writerVars, cleanerVars, restVars>>

NextLedger ==
  \/ \E pages \in [1..Len(BaseUrls) -> PageOutcomes] : \E status \in Statuses(pages) :
       ScheduledUpdate(pages, status)
  \/ \E pages \in [1..Len(BaseUrls) -> PageOutcomes] : \E status \in Statuses(pages) :
       ScheduledUpdateKilled(pages, status)
  \/ \E url \in AllUrls : Publish(url)
  \/ \E file_info \in ErpcFiles : \E outcome \in ErpcOutcomes :
       ErpcDownloadAndProcessFile(file_info, outcome)

----------------------------------------------------------------------------
(* Vocabulary of the ledger properties *)

\* last_run holds a run of scheduled_update, erpc_call a call
RunMade == program = "dsm-data" /\ clock > 0
CallMade == program = "erpc" /\ clock > 0

\* the hash an entry of a ledger records for a key, None without an entry
HashIn(d, key) ==
  IF d.kind = "dict" /\ DictHas(d, key) /\ IsDict(DictGet(d, key))
  THEN DictGet(d, key).hash ELSE None

\* The hash the ledger records for the URL of check i as the check is made:
\* that of the last earlier check of the run that recorded the URL, else
\* that of the loaded ledger.
RecordedBefore(i) ==
  LET url == last_run.checks[i].url
      earlier == {j \in 1..(i - 1) :
                    last_run.checks[j].url = url /\ last_run.checks[j].changed}
  IN IF earlier # {}
     THEN last_run.checks[CHOOSE j \in earlier : \A k \in earlier : k <= j].hash
     ELSE HashIn(last_run.loaded, FileKey("DSA", url))

----------------------------------------------------------------------------
(* C12 *)

\* scheduled_update processes a fetched file exactly when the ledger records
\* no hash or another hash for it
GatingDsm ==
  RunMade =>
    \A i \in 1..Len(last_run.checks) :
      last_run.checks[i].hash # None =>
        (last_run.checks[i].changed <=> RecordedBefore(i) # last_run.checks[i].hash)

\* download_and_process_file of the ERPC script processes a file exactly
\* when the ledger records no hash or another hash than that of the content
\* the URL serves
GatingErpc ==
  (CallMade /\ erpc_call.result # "raised") =>
    (erpc_call.changed <=>
       HashIn(erpc_call.loaded, erpc_call.file.href) # Md5(erpc_call.served))

\* C12: the decision to process a resource is true exactly when the ledger
\* has no entry for it or records a hash other than that of the fetched
\* content: recorded with b1, the same content gives "do not process" and
\* any other content gives "process"; in scheduled_update and in
\* check_for_changes.
C12_Gating == GatingDsm /\ GatingErpc

----------------------------------------------------------------------------
(* C13 *)

\* run r processed the content with hash h of the URL
ProcessedIn(r, url, h) ==
  \E i \in 1..Len(r.checks) :
    /\ r.checks[i].url = url
    /\ r.checks[i].hash = h
    /\ r.checks[i].changed
    /\ r.checks[i].success

\* a run of scheduled_update that follows a run does not process a file
\* again whose content the earlier run processed
NoOpDsm ==
  (RunMade /\ ~last_run.killed /\ clock' = clock + 1) =>
    \A i \in 1..Len(last_run'.checks) :
      ProcessedIn(last_run, last_run'.checks[i].url, last_run'.checks[i].hash)
        => ~last_run'.checks[i].changed

\* a call of the ERPC download_and_process_file that follows a call which
\* processed the same file with the same content downloads and writes nothing
NoOpErpc ==
  (/\ CallMade /\ clock' = clock + 1
   /\ erpc_call.written /\ erpc_call.result = "True"
   /\ erpc_call'.file = erpc_call.file
   /\ erpc_call'.served = erpc_call.served) =>
    ~erpc_call'.downloaded /\ ~erpc_call'.written

\* C13: when a run has processed a resource and the resource serves the same
\* content at the next run, the next run does not download and process it
\* again and writes no artifact for it; in scheduled_update of dsm-data.py
\* and in download_and_process_file of erpc_extractor.py.
C13_NoOpRerun == [][NoOpDsm /\ NoOpErpc]_vars

----------------------------------------------------------------------------
(* C14 *)

\* the dictionary a ledger file holds, empty when it cannot be loaded
OnDisk(file) == LoadFileTracking(file).data

\* the URLs the entries of a ledger file record
RecordedUrls(file) ==
  {OnDisk(file).items[i].value.url :
     i \in {j \in 1..Len(OnDisk(file).items) : IsDict(OnDisk(file).items[j].value)}}

\* no key and no recorded URL leaves the ledger file
Grows(file_before, file_after) ==
  /\ DictKeys(OnDisk(file_before)) \subseteq DictKeys(OnDisk(file_after))
  /\ RecordedUrls(file_before) \subseteq RecordedUrls(file_after)

\* a run that was not aborted leaves, for every file whose hash it fetched,
\* an entry with that hash, written in this run exactly when the hash
\* differed from the recorded one
LifecycleDsm ==
  (program = "dsm-data" /\ clock' = clock + 1 /\ last_run'.saved) =>
    \A i \in 1..Len(last_run'.checks) :
      LET c == last_run'.checks[i]
          key == FileKey("DSA", c.url)
      IN c.hash # None =>
           /\ HashIn(OnDisk(tracking_file'), key) = c.hash
           /\ (DictGet(OnDisk(tracking_file'), key).last_updated = last_run'.now)
                <=> (HashIn(last_run'.loaded, key) # c.hash)

\* a call that fetched the file leaves an entry with its hash and URL
LifecycleErpc ==
  (program = "erpc" /\ clock' = clock + 1 /\ erpc_call'.downloaded) =>
    /\ HashIn(OnDisk(erpc_tracking_file'), erpc_call'.file.href) = Md5(erpc_call'.served)
    /\ erpc_call'.file.url \in RecordedUrls(erpc_tracking_file')

\* C14: over any sequence of runs no key leaves the ledger, an entry is
\* created at the first successful fetch of a resource, its hash is replaced
\* exactly when the fetched hash differs, and every URL that was recorded
\* keeps an entry of its own.
C14_LedgerLifecycle ==
  [][/\ Grows(tracking_file, tracking_file')
     /\ Grows(erpc_tracking_file, erpc_tracking_file')
     /\ LifecycleDsm
     /\ LifecycleErpc]_vars

----------------------------------------------------------------------------
(* C15 *)

\* the ledger file is missing, cannot be parsed, or is not a map from
\* resource ids to entry records
Unusable(file) ==
  \/ ~file.exists
  \/ ~JsonLoad(file.text).ok
  \/ JsonLoad(file.text).value.kind # "dict"
  \/ \E i \in 1..Len(JsonLoad(file.text).value.items) :
       ~IsDict(JsonLoad(file.text).value.items[i].value)

LedgerWarning == Logged("warning", "Error loading tracking file")

\* every file the scraper listed was checked, and processed when its hash
\* could be fetched and no earlier check of the run had recorded it
AllProcessed ==
  /\ Len(last_run.checks) = Len(last_run.files)
  /\ \A i \in 1..Len(last_run.checks) :
       (last_run.checks[i].hash # None /\ RecordedBefore(i) = None)
         => last_run.checks[i].changed

\* C15: with a ledger file that is missing, unreadable, malformed or not a
\* map of entry records, the run takes the ledger as empty, logs a warning,
\* checks and processes every discovered resource and is not aborted.
C15_UnusableLedger ==
  /\ (/\ RunMade /\ ~last_run.killed
      /\ Unusable(last_run.before)
      /\ \A i \in 1..Len(last_run.pages) : last_run.pages[i] # "ValueError") =>
       /\ last_run.loaded = EmptyDict
       /\ LedgerWarning \in last_run.log
       /\ ~last_run.aborted
       /\ last_run.saved
       /\ AllProcessed
  /\ (CallMade /\ Unusable(erpc_call.before)) =>
       /\ erpc_call.loaded = EmptyDict
       /\ LedgerWarning \in erpc_call.log
       /\ erpc_call.result # "raised"
       /\ erpc_call.changed

----------------------------------------------------------------------------
(* C16 *)

\* C16: whenever a process stops, also inside save_file_tracking, the
\* ledger file is the complete map it was before the run or the complete
\* map the run saves.
C16_AtomicSave ==
  RunMade =>
    tracking_file \in {last_run.before, SaveFileTracking(last_run.tracking)}

----------------------------------------------------------------------------
(* C17 *)

\* the ledger file the run found holds a map of entry records, or no map
WellFormed(file) ==
  ~file.exists \/ ~JsonLoad(file.text).ok \/ ~Unusable(file)

\* the files linked from the base pages that were fetched without error
Reachable(r) ==
  UNION {Range(PageLinks(BaseUrls[i])) : i \in {j \in 1..Len(r.pages) : r.pages[j] = "ok"}}

\* C17: a scheduled_update run in which the fetch of a page or the hashing,
\* download or parsing of a resource fails with any exception is not
\* aborted: every other discovered resource is checked and the ledger is
\* saved at the end of the run.
C17_NoFailureAborts ==
  (RunMade /\ ~last_run.killed /\ WellFormed(last_run.before)) =>
    /\ ~last_run.aborted
    /\ last_run.saved
    /\ tracking_file = SaveFileTracking(last_run.tracking)
    /\ \A url \in Reachable(last_run) :
         \E i \in 1..Len(last_run.checks) : last_run.checks[i].url = url

----------------------------------------------------------------------------
(* C25 *)

\* run r tried to process the content with hash h of the URL and failed
FailedIn(r, url, h) ==
  \E i \in 1..Len(r.checks) :
    /\ r.checks[i].url = url
    /\ r.checks[i].hash = h
    /\ r.checks[i].changed
    /\ ~r.checks[i].success

\* the first check of the URL in run r that has a hash
FirstCheck(r, i) ==
  /\ r.checks[i].hash # None
  /\ \A j \in 1..(i - 1) : r.checks[j].url = r.checks[i].url => r.checks[j].hash = None

\* a hash that a run of scheduled_update newly leaves in the ledger file is
\* the hash of a content the run processed with success
RecordedDsm ==
  (program = "dsm-data" /\ clock' = clock + 1 /\ last_run'.saved) =>
    \A url \in Urls \cup {RefUrl} :
      LET h == HashIn(OnDisk(tracking_file'), FileKey("DSA", url))
      IN (h # None /\ h # HashIn(last_run'.loaded, FileKey("DSA", url)))
           => ProcessedIn(last_run', url, h)

\* a content whose processing failed in a run is processed again by the
\* next run that fetches the same hash
RetriedDsm ==
  (RunMade /\ ~last_run.killed /\ clock' = clock + 1) =>
    \A i \in 1..Len(last_run'.checks) :
      (/\ FirstCheck(last_run', i)
       /\ FailedIn(last_run, last_run'.checks[i].url, last_run'.checks[i].hash))
        => last_run'.checks[i].changed

\* a hash that a call of the ERPC download_and_process_file newly leaves in
\* the ledger file is the hash of the content the call downloaded and wrote
RecordedErpc ==
  (program = "erpc" /\ clock' = clock + 1) =>
    \A f \in ErpcFiles :
      LET h == HashIn(OnDisk(erpc_tracking_file'), f.href)
      IN (h # None /\ h # HashIn(OnDisk(erpc_tracking_file), f.href))
           => /\ erpc_call'.file.href = f.href
              /\ erpc_call'.written
              /\ erpc_call'.result = "True"
              /\ h = Md5(erpc_call'.served)

\* a file whose download or processing failed in a call is attempted
\* again by the next call for it
RetriedErpc ==
  (/\ CallMade /\ clock' = clock + 1
   /\ erpc_call.changed /\ erpc_call.result = "False"
   /\ erpc_call'.file = erpc_call.file
   /\ erpc_call'.served = erpc_call.served
   /\ erpc_call'.result # "raised") =>
    erpc_call'.changed

\* C25: a ledger entry with hash h is recorded for a resource only when the
\* content with hash h was downloaded, processed and written with success,
\* and a resource whose download or processing failed is attempted again
\* at the next run although it serves the same content; in scheduled_update
\* of dsm-data.py and in download_and_process_file of erpc_extractor.py.
C25_RecordedOnSuccess ==
  [][RecordedDsm /\ RetriedDsm /\ RecordedErpc /\ RetriedErpc]_vars

----------------------------------------------------------------------------
(* C26 *)

\* checks i and j > i of the run are for the same category and URL
ListedAgain(i, j) ==
  /\ i < j
  /\ j <= Len(last_run.checks)
  /\ last_run.checks[i].url = last_run.checks[j].url

\* C26: in one run of scheduled_update a file that the scraper lists more
\* than once is handed to download_and_process_file at most once: after the
\* occurrence that is processed every later occurrence is unchanged.
C26_ProcessedOnce ==
  RunMade =>
    \A i, j \in 1..Len(last_run.checks) :
      (ListedAgain(i, j) /\ last_run.checks[i].changed) => ~last_run.checks[j].changed

\* a run processed a file at its first occurrence, with or without success,
\* and fetched its hash again at a later one
C26_Witness ==
  /\ RunMade
  /\ \E i, j \in 1..Len(last_run.checks) :
       /\ ListedAgain(i, j)
       /\ last_run.checks[i].changed
       /\ ~last_run.checks[i].success
       /\ last_run.checks[j].hash # None

----------------------------------------------------------------------------
(* C30 *)

\* the entry a ledger holds for a key, None without one
EntryIn(d, key) == IF d.kind = "dict" /\ DictHas(d, key) THEN DictGet(d, key) ELSE None

\* the keys of the ledger and of the files the site can list
LedgerKeys(r) ==
  {FileKey("DSA", url) : url \in Urls \cup {RefUrl}}
    \cup (IF r.loaded.kind = "dict" THEN DictKeys(r.loaded) ELSE {})
    \cup (IF r.tracking.kind = "dict" THEN DictKeys(r.tracking) ELSE {})

\* some check of the run found the file of the key changed
ChangedIn(r, key) ==
  \E i \in 1..Len(r.checks) : FileKey("DSA", r.checks[i].url) = key /\ r.checks[i].changed

\* check i has no hash, or the hash the ledger records
NoChange(i) ==
  \/ last_run.checks[i].hash = None
  \/ last_run.checks[i].hash = RecordedBefore(i)

\* C30: a check of scheduled_update whose hash could not be fetched or is
\* the recorded hash does not call download_and_process_file, and a run
\* leaves the entry (hash, last_updated, url, type) of every key as loaded,
\* or absent as before, except those of the files it found changed.
C30_CheckFrame ==
  RunMade =>
    /\ \A i \in 1..Len(last_run.checks) : NoChange(i) => ~last_run.checks[i].changed
    /\ \A key \in LedgerKeys(last_run) :
         ~ChangedIn(last_run, key) =>
           EntryIn(last_run.tracking, key) = EntryIn(last_run.loaded, key)

\* a run with a recorded file that is unchanged, a file without hash and
\* without entry, and a changed file
C30_Witness ==
  /\ RunMade
  /\ \E i, j, k \in 1..Len(last_run.checks) :
       /\ last_run.checks[i].hash # None /\ NoChange(i)
       /\ EntryIn(last_run.loaded, FileKey("DSA", last_run.checks[i].url)) # None
       /\ last_run.checks[j].hash = None
       /\ EntryIn(last_run.tracking, FileKey("DSA", last_run.checks[j].url)) = None
       /\ last_run.checks[k].changed

----------------------------------------------------------------------------
(* The weekly artifact: process_weekly_dataframe of dsm-data.py *)

\* calls of process_weekly_dataframe in a behaviour
MaxWrites == 2

\* an .xlsx file: the sheets in workbook order, each a header and rows
NoArtifact == [exists |-> FALSE, readable |-> FALSE, sheets |-> <<>>]
Corrupt == [exists |-> TRUE, readable |-> FALSE, sheets |-> <<>>]
Workbook(sheets) == [exists |-> TRUE, readable |-> TRUE, sheets |-> sheets]

\* an empty spreadsheet cell
Blank == [k |-> "blank", t |-> <<>>]

\* df.to_excel(writer, sheet_name=sheet_name, index=False): the header row
\* and the rows, nan written as an empty cell
ToExcel(sheet_name, frame) ==
  [name |-> sheet_name,
   cols |-> frame.cols,
   rows |-> [i \in 1..Len(frame.rows) |->
               [c \in Range(frame.cols) |->
                  IF frame.rows[i][c].k = "nan" THEN Blank ELSE frame.rows[i][c]]]]

\* df['Sheet_Name'] = sheet_name, the column download_and_process_file adds
\* to every sheet it hands to the writer
WithSheetName(frame, sheet_name) ==
  [cols |-> Append(frame.cols, "Sheet_Name"),
   rows |-> [i \in 1..Len(frame.rows) |->
               [c \in Range(frame.cols) \cup {"Sheet_Name"} |->
                  IF c = "Sheet_Name" THEN S(sheet_name) ELSE frame.rows[i][c]]]]

SheetA == TA
SheetB == TB

\* the frames of the sheets: two rows with one station key, one row with a
\* Date key, two equal rows without a key column
WeeklyFrames ==
  <<[cols |-> StnCols,
     rows |-> <<StnRow(S(TA), S(TDay), I(T10)), StnRow(S(TA), S(TDay), I(T12))>>],
    [cols |-> DateCols, rows |-> <<DateRow(S(TDay), I(T5))>>],
    [cols |-> NameCols, rows |-> <<NameRow(S(TA), I(T1)), NameRow(S(TA), I(T1))>>]>>

SheetItem(sheet_name, n) ==
  [name |-> sheet_name, df |-> WithSheetName(WeeklyFrames[n], sheet_name)]

\* sheet_data: the dict of sheet name and DataFrame, in insertion order
SheetData ==
  {<<SheetItem(SheetA, 1)>>,
   <<SheetItem(SheetB, 2)>>,
   <<SheetItem(SheetA, 2), SheetItem(SheetB, 3)>>,
   <<SheetItem(SheetB, 1), SheetItem(SheetA, 3)>>}

Unknown == "Unknown"

\* file_info of a weekly file and of a file without week information; the
\* href is cut into the parts str.replace tells apart
WeeklyFileInfos ==
  {[href |-> <<"DSM_W1", ".xlsx">>, week |-> "W1"],
   [href |-> <<"DSM", ".xls">>, week |-> Unknown]}

\* str.replace(old, '')
Replace(parts, old) == SelectRows(parts, [i \in 1..Len(parts) |-> parts[i] # old])

\* weekly_excel_filename
WeeklyExcelFilename(file_info) ==
  IF file_info.week # Unknown
  THEN <<"Supporting_files_", file_info.week, ".xlsx">>
  ELSE Replace(Replace(file_info.href, ".xlsx"), ".xls") \o <<".xlsx">>

\* alt_filename
AltFilename(file_info) == <<"extracted_data_", file_info.week, ".xlsx">>

WeeklyFilenames ==
  {WeeklyExcelFilename(fi) : fi \in WeeklyFileInfos}
    \cup {AltFilename(fi) : fi \in WeeklyFileInfos}

\* for sheet_name, df in sheet_data.items(): the frame without the rows an
\* later row has the key of
ProcessedSheets(sheet_data) ==
  [i \in 1..Len(sheet_data) |->
     LET frame == sheet_data[i].df
         keys == WeeklyKeyColumns(frame.cols)
     IN [name |-> sheet_data[i].name,
         df |-> IF keys # <<>> /\ Len(frame.rows) > 0
                THEN [frame EXCEPT !.rows = DropDuplicates(frame.rows, keys)]
                ELSE frame]]

SheetNames(sheets) == {sheets[i].name : i \in 1..Len(sheets)}

SheetIndex(sheets, sheet_name) ==
  CHOOSE i \in 1..Len(sheets) : sheets[i].name = sheet_name

\* to_excel with if_sheet_exists='replace': a sheet of the name is replaced
\* in its place, another name is added at the end of the workbook
PutSheet(sheets, item) ==
  IF item.name \in SheetNames(sheets)
  THEN [sheets EXCEPT ![SheetIndex(sheets, item.name)] = ToExcel(item.name, item.df)]
  ELSE Append(sheets, ToExcel(item.name, item.df))

\* the workbook after to_excel of the first n processed sheets
RECURSIVE PutSheets(_, _, _)
PutSheets(sheets, processed, n) ==
  IF n = 0 THEN sheets
  ELSE PutSheet(PutSheets(sheets, processed, n - 1), processed[n])

\* What a with pd.ExcelWriter(...) block can do to the file: run to its end,
\* fail before the file is opened, or fail at the to_excel of a sheet, when
\* leaving the block saves the sheets written so far (a workbook without a
\* sheet cannot be saved and leaves the opened file unusable).
WriteOutcomes(file, processed, mode) ==
  LET start == IF mode = "a" THEN file.sheets ELSE <<>> IN
    {[ok |-> TRUE, file |-> Workbook(PutSheets(start, processed, Len(processed)))]}
    \cup {[ok |-> FALSE, file |-> file]}
    \cup {[ok |-> FALSE,
           file |-> IF PutSheets(start, processed, n) = <<>> THEN Corrupt
                    ELSE Workbook(PutSheets(start, processed, n))] :
            n \in 0..(Len(processed) - 1)}

\* os.remove(weekly_excel_filename) inside try ... except: pass
RemoveOutcomes(file) == {[ok |-> TRUE, file |-> NoArtifact], [ok |-> FALSE, file |-> file]}

NotTried == "not tried"
Outcome(w) == IF w.ok THEN "ok" ELSE "raised"

WeeklyResult(files, returned, append, remove, create, alt, logged) ==
  [files |-> files, result |-> returned, append |-> append, remove |-> remove,
   create |-> create, alt |-> alt, log |-> logged]

\* the branch of an existing file: pd.ExcelFile, the ExcelWriter in mode 'a',
\* and in the except branch os.remove and a new ExcelWriter, whose exception
\* reaches the except of the function
ExistingFile(files, name, processed) ==
  LET appends == IF files[name].readable
                 THEN WriteOutcomes(files[name], processed, "a")
                 ELSE {[ok |-> FALSE, file |-> files[name]]}
  IN UNION {
       IF a.ok
       THEN {WeeklyResult([files EXCEPT ![name] = a.file], TRUE,
                          "ok", NotTried, NotTried, NotTried, {})}
       ELSE UNION {
              {WeeklyResult([files EXCEPT ![name] = c.file], c.ok,
                            IF files[name].readable THEN "raised" ELSE NotTried,
                            Outcome(r), Outcome(c), NotTried,
                            {Logged("warning", "Error reading existing Excel file")}
                              \cup (IF c.ok THEN {}
                                    ELSE {Logged("error", "Error processing weekly dataframe")})) :
                 c \in WriteOutcomes(r.file, processed, "w")} :
              r \in RemoveOutcomes(a.file)} :
       a \in appends}

\* the branch of a missing file: a new ExcelWriter and, when it fails, one
\* on alt_filename
MissingFile(files, name, alt_name, processed) ==
  UNION {
    IF c.ok
    THEN {WeeklyResult([files EXCEPT ![name] = c.file], TRUE,
                       NotTried, NotTried, "ok", NotTried, {})}
    ELSE {WeeklyResult([files EXCEPT ![name] = c.file, ![alt_name] = x.file], x.ok,
                       NotTried, NotTried, "raised", Outcome(x),
                       {Logged("error", "Error creating Excel file")}
                         \cup (IF x.ok THEN {}
                               ELSE {Logged("error", "Failed to create alternative file")})) :
            x \in WriteOutcomes(files[alt_name], processed, "w")} :
    c \in WriteOutcomes(files[name], processed, "w")}

\* process_weekly_dataframe(sheet_data, data_type, file_info): every way the
\* call can end, with the files it leaves
ProcessWeekly(files, sheet_data, file_info) ==
  LET name == WeeklyExcelFilename(file_info)
      processed == ProcessedSheets(sheet_data)
  IN IF files[name].exists
     THEN ExistingFile(files, name, processed)
     ELSE MissingFile(files, name, AltFilename(file_info), processed)

NoWeeklyCall ==
  [n |-> 0, sheet_data |-> <<>>, file_info |-> [href |-> <<>>, week |-> Unknown],
   before |-> [f \in WeeklyFilenames |-> NoArtifact], result |-> FALSE,
   append |-> NotTried, remove |-> NotTried, create |-> NotTried, alt |-> NotTried,
   log |-> {}]

\* no call of the writer is made
WriterIdle ==
  /\ weekly_files = [f \in WeeklyFilenames |-> NoArtifact]
  /\ weekly_call = NoWeeklyCall

\* the artifacts are missing, or damaged files of their names lie on disk
WriterStart ==
  /\ weekly_files \in [WeeklyFilenames -> {NoArtifact, Corrupt}]
  /\ \A fi \in WeeklyFileInfos : weekly_files[AltFilename(fi)] = NoArtifact
  /\ weekly_call = NoWeeklyCall

ProcessWeeklyDataframe(sheet_data, file_info) ==
  /\ weekly_call.n < MaxWrites
  /\ \E r \in ProcessWeekly(weekly_files, sheet_data, file_info) :
       /\ weekly_files' = r.files
       /\ weekly_call' = [n |-> weekly_call.n + 1, sheet_data |-> sheet_data,
                          file_info |-> file_info, before |-> weekly_files,
                          result |-> r.result, append |-> r.append,
                          remove |-> r.remove, create |-> r.create, alt |-> r.alt,
                          log |-> r.log]
  /\ UNCHANGED <<mergeVars, ledgerVars, cleanerVars, restVars>>

NextWriter ==
  \E sheet_data \in SheetData : \E file_info \in WeeklyFileInfos :
    ProcessWeeklyDataframe(sheet_data, file_info)

----------------------------------------------------------------------------
(* C18 *)

WriteMade == weekly_call.n > 0

\* the artifact of the last call, before and after it
TargetBefore == weekly_call.before[WeeklyExcelFilename(weekly_call.file_info)]
TargetAfter == weekly_files[WeeklyExcelFilename(weekly_call.file_info)]

\* the sheet of a name in an artifact that has one
SheetOf(file, sheet_name) == file.sheets[SheetIndex(file.sheets, sheet_name)]

\* the artifact holds the sheet of the batch with every row of the batch
HoldsBatchSheet(file, item) ==
  /\ item.name \in SheetNames(file.sheets)
  /\ SheetOf(file, item.name) = ToExcel(item.name, item.df)

\* a readable artifact gets every sheet of the batch and keeps its others
UpdatesReadable ==
  (WriteMade /\ TargetBefore.exists /\ TargetBefore.readable) =>
    /\ TargetAfter.readable
    /\ \A i \in 1..Len(weekly_call.sheet_data) :
         HoldsBatchSheet(TargetAfter, weekly_call.sheet_data[i])
    /\ \A i \in 1..Len(TargetBefore.sheets) :
         TargetBefore.sheets[i].name \notin SheetNames(weekly_call.sheet_data)
           => /\ TargetBefore.sheets[i].name \in SheetNames(TargetAfter.sheets)
              /\ SheetOf(TargetAfter, TargetBefore.sheets[i].name) = TargetBefore.sheets[i]

\* an unreadable artifact is removed and made anew from the batch
RecreatesUnreadable ==
  (WriteMade /\ TargetBefore.exists /\ ~TargetBefore.readable) =>
    /\ weekly_call.remove = "ok"
    /\ TargetAfter.readable
    /\ TargetAfter.sheets =
         [i \in 1..Len(weekly_call.sheet_data) |->
            ToExcel(weekly_call.sheet_data[i].name, weekly_call.sheet_data[i].df)]

\* C18: process_weekly_dataframe on an artifact that exists and is readable
\* leaves every sheet of the batch in it with exactly the rows of the batch
\* and every other sheet as it was; an artifact that is unreadable is
\* removed and created anew with exactly the sheets of the batch; the call
\* returns and does not raise.
C18_SheetSetWriter ==
  /\ UpdatesReadable
  /\ RecreatesUnreadable
  /\ WriteMade => weekly_call.result \in BOOLEAN

----------------------------------------------------------------------------
(* The sheet cleaner: the per-sheet loop of download_and_process_file of     *)
(* dsm-data.py and of process_excel_file of erpc_extractor.py.  A sheet is   *)
(* held by position: cols is the sequence of the column labels, every row    *)
(* the sequence of its cells.                                                *)

\* data rows of a sheet
MaxRows == 2

\* df.shape[1] > 50
HeaderThreshold == 50

StnNameText == <<"S", "t", "n", "_", "N", "a", "m", "e">>
SheetNameText == <<"S", "h", "e", "e", "t", "_", "N", "a", "m", "e">>

DigitChars == <<"0", "1", "2", "3", "4", "5", "6", "7", "8", "9">>

\* str(n) of a natural number
RECURSIVE Decimal(_)
Decimal(n) ==
  IF n < 10 THEN <<DigitChars[n + 1]>>
  ELSE Decimal(n \div 10) \o <<DigitChars[(n % 10) + 1]>>

\* f'Column_{i}'
ColumnPlaceholder(i) == <<"C", "o", "l", "u", "m", "n", "_">> \o Decimal(i)

\* the label read_excel gives to a column whose header cell is empty
Unnamed(i) == <<"U", "n", "n", "a", "m", "e", "d", ":", " ">> \o Decimal(i)

\* the element of an object array in str(array)
Repr(v) ==
  IF v.k = "str" THEN <<"'">> \o v.t \o <<"'">>
  ELSE IF v.k = "nan" THEN NanText ELSE v.t

\* str(df.iloc[0].values): the elements in brackets, separated by blanks
RECURSIVE ReprElements(_)
ReprElements(cells) ==
  IF cells = <<>> THEN <<>>
  ELSE IF Len(cells) = 1 THEN Repr(cells[1])
  ELSE Repr(cells[1]) \o <<" ">> \o ReprElements(Tail(cells))

StrValues(cells) == <<"[">> \o ReprElements(cells) \o <<"]">>

\* needle in hay, of two texts
Contains(hay, needle) ==
  \E i \in 1..(Len(hay) - Len(needle) + 1) :
    SubSeq(hay, i, i + Len(needle) - 1) = needle

\* the columns after the second: a label and a cell of their own
FillerLabel(j) == S(<<"c">> \o Decimal(j))
FillerCell == I(T1)

\* the labels read_excel can give the first two columns: the header text as
\* it is, Unnamed: <i> for an empty header cell, a number (two numbers make
\* a sheet of two columns without a text label)
HeadLabels(i) == {S(<<" ", "A", " ">>), S(<<" ">>), S(Unnamed(i)), I(T5), I(T2)}

\* the cells of the first two columns
HeadCells == {S(StnNameText), S(<<"x">> \o StnNameText), S(<<" ", "B">>), S(<<" ">>), NaN}

Widths == {2, HeaderThreshold, HeaderThreshold + 1}

Widen(head, width, filler) ==
  [j \in 1..width |-> IF j <= Len(head) THEN head[j] ELSE filler[j]]

\* the sheets pd.read_excel returns: labels that differ from each other
CleanerSheets ==
  {[cols |-> Widen(<<l1, l2>>, w, [j \in 1..w |-> FillerLabel(j)]),
    rows |-> [i \in 1..n |-> Widen(cells[i], w, [j \in 1..w |-> FillerCell])]] :
     <<l1, l2, w, n, cells>> \in
       {<<l1, l2, w, n, cells>> \in
          UNION {HeadLabels(0) \X HeadLabels(1) \X Widths \X {n}
                   \X [1..n -> HeadCells \X {NaN, S(TA)}] : n \in 0..MaxRows} :
            l1 # l2}}

NoSheet == [cols |-> <<>>, rows |-> <<>>]

NoClean ==
  [script |-> "none", raised |-> FALSE, kept |-> FALSE, header |-> <<>>,
   columns |-> <<>>, rows |-> <<>>, log |-> {}]

\* if df.shape[1] > 50 and 'Stn_Name' in str(df.iloc[0].values): the first
\* row becomes the labels and leaves the rows; df.iloc[0] of a sheet without
\* rows raises IndexError
PromoteHeader(raw) ==
  IF Len(raw.cols) > HeaderThreshold
  THEN IF raw.rows = <<>>
       THEN [raised |-> TRUE, cols |-> raw.cols, rows |-> raw.rows]
       ELSE IF Contains(StrValues(raw.rows[1]), StnNameText)
            THEN [raised |-> FALSE, cols |-> raw.rows[1], rows |-> Tail(raw.rows)]
            ELSE [raised |-> FALSE, cols |-> raw.cols, rows |-> raw.rows]
  ELSE [raised |-> FALSE, cols |-> raw.cols, rows |-> raw.rows]

\* [str(col).strip() if pd.notna(col) else f'Column_{i}'
\*  for i, col in enumerate(df.columns)]
CleanColumnNames(cols) ==
  [j \in 1..Len(cols) |->
     IF cols[j].k # "nan" THEN S(Strip(Str(cols[j])))
     ELSE S(ColumnPlaceholder(j - 1))]

\* df['Sheet_Name'] = sheet_name: a new last column, or new cells in the
\* columns that have the label
AddSheetName(cols, rows, sheet_name) ==
  IF S(SheetNameText) \in Range(cols)
  THEN [cols |-> cols,
        rows |-> [i \in 1..Len(rows) |->
                    [j \in 1..Len(cols) |->
                       IF cols[j] = S(SheetNameText) THEN S(sheet_name) ELSE rows[i][j]]]]
  ELSE [cols |-> Append(cols, S(SheetNameText)),
        rows |-> [i \in 1..Len(rows) |-> Append(rows[i], S(sheet_name))]]

\* the body of the sheet loop of download_and_process_file; an exception
\* leaves the loop and the file is given up
CleanSheet(raw, sheet_name) ==
  LET promoted == PromoteHeader(raw)
      named == AddSheetName(CleanColumnNames(promoted.cols), promoted.rows, sheet_name)
  IN IF promoted.raised
     THEN [script |-> "dsm-data", raised |-> TRUE, kept |-> FALSE, header |-> raw.cols,
           columns |-> <<>>, rows |-> <<>>,
           log |-> {Logged("error", "Error processing file")}]
     ELSE [script |-> "dsm-data", raised |-> FALSE, kept |-> TRUE,
           header |-> promoted.cols, columns |-> named.cols, rows |-> named.rows,
           log |-> {}]

\* df.empty
IsEmptySheet(raw) == raw.rows = <<>> \/ raw.cols = <<>>

\* df.columns.str.strip(): a label that is no string becomes nan; an Index
\* without a string has no .str and raises AttributeError
StrStrip(cols) ==
  [j \in 1..Len(cols) |-> IF cols[j].k = "str" THEN S(Strip(cols[j].t)) ELSE NaN]

HasStrAccessor(cols) == \E j \in 1..Len(cols) : cols[j].k = "str"

\* df.dropna(how='all')
DropEmptyRows(rows) ==
  SelectRows(rows, [i \in 1..Len(rows) |-> \E j \in 1..Len(rows[i]) : rows[i][j].k # "nan"])

\* df.dropna(axis=1, how='all'): the positions of the columns that stay
FilledColumns(cols, rows) ==
  SelectRows([j \in 1..Len(cols) |-> j],
             [j \in 1..Len(cols) |-> \E i \in 1..Len(rows) : rows[i][j].k # "nan"])

\* the body of the sheet loop of process_excel_file
ErpcCleanSheet(raw) ==
  LET skip(level, msg) ==
        [script |-> "erpc", raised |-> FALSE, kept |-> FALSE, header |-> raw.cols,
         columns |-> <<>>, rows |-> <<>>, log |-> {Logged(level, msg)}]
      rows == DropEmptyRows(raw.rows)
      stay == FilledColumns(raw.cols, rows)
      pruned == [cols |-> [j \in 1..Len(stay) |-> StrStrip(raw.cols)[stay[j]]],
                 rows |-> [i \in 1..Len(rows) |->
                             [j \in 1..Len(stay) |-> rows[i][stay[j]]]]]
  IN IF IsEmptySheet(raw) THEN skip("warning", "Sheet is empty")
     ELSE IF ~HasStrAccessor(raw.cols) THEN skip("error", "Error processing sheet")
     ELSE IF IsEmptySheet(pruned) THEN skip("warning", "Sheet is empty after cleaning")
     ELSE [script |-> "erpc", raised |-> FALSE, kept |-> TRUE,
           header |-> [j \in 1..Len(stay) |-> raw.cols[stay[j]]],
           columns |-> pruned.cols, rows |-> pruned.rows,
           log |-> {Logged("info", "Processed sheet")}]

\* worksheet.iter_rows(values_only=True) of the sheet read_excel labelled:
\* the header row and the data rows, an empty cell as None
Worksheet(raw) ==
  <<[j \in 1..Len(raw.cols) |->
       IF raw.cols[j] = S(Unnamed(j - 1)) THEN NaN ELSE raw.cols[j]]>> \o raw.rows

\* any(cell is not None for cell in row)
AnyCell(row) == \E j \in 1..Len(row) : row[j].k # "nan"

\* max_col + 1: past the last column that holds a cell in some row
RECURSIVE LastFilled(_, _)
LastFilled(rows, j) ==
  IF j = 0 THEN 1
  ELSE IF \E i \in 1..Len(rows) : j <= Len(rows[i]) /\ rows[i][j].k # "nan" THEN j
  ELSE LastFilled(rows, j - 1)

\* str(cell).strip() if cell is not None else ''
CleanedCell(v) == IF v.k = "nan" THEN S(<<>>) ELSE S(Strip(Str(v)))

\* the body of the sheet loop of process_excel_file of dsa_extractor.py for
\* an .xlsx file: the rows with a cell, cut after the last filled column
DsaCleanSheet(worksheet) ==
  LET data == SelectRows(worksheet, [i \in 1..Len(worksheet) |-> AnyCell(worksheet[i])])
      width == LastFilled(data, IF data = <<>> THEN 0 ELSE Len(data[1]))
      cleaned_data == [i \in 1..Len(data) |-> [j \in 1..width |-> CleanedCell(data[i][j])]]
  IN IF data = <<>>
     THEN [script |-> "dsa", raised |-> FALSE, kept |-> FALSE, header |-> <<>>,
           columns |-> <<>>, rows |-> <<>>,
           log |-> {Logged("warning", "Sheet is empty")}]
     ELSE [script |-> "dsa", raised |-> FALSE, kept |-> TRUE, header |-> <<>>,
           columns |-> <<>>, rows |-> cleaned_data,
           log |-> {Logged("info", "Processed sheet")}]

\* no sheet is cleaned
CleanerIdle == sheet = NoSheet /\ cleaned = NoClean

\* pd.read_excel has returned a sheet
CleanerStart == sheet \in CleanerSheets /\ cleaned = NoClean

DsmCleanSheet ==
  /\ cleaned = NoClean
  /\ cleaned' = CleanSheet(sheet, SheetA)
  /\ UNCHANGED <<sheet, mergeVars, ledgerVars, writerVars, restVars>>

ErpcProcessSheet ==
  /\ cleaned = NoClean
  /\ cleaned' = ErpcCleanSheet(sheet)
  /\ UNCHANGED <<sheet, mergeVars, ledgerVars, writerVars, restVars>>

DsaProcessSheet ==
  /\ cleaned = NoClean
  /\ cleaned' = DsaCleanSheet(Worksheet(sheet))
  /\ UNCHANGED <<sheet, mergeVars, ledgerVars, writerVars, restVars>>

NextCleaner == DsmCleanSheet \/ ErpcProcessSheet \/ DsaProcessSheet

----------------------------------------------------------------------------
(* C19 *)

DsmCleaned == cleaned.script = "dsm-data"

\* more than 50 columns and a first row with the value Stn_Name
HeaderInFirstRow ==
  /\ Len(sheet.cols) > HeaderThreshold
  /\ sheet.rows # <<>>
  /\ S(StnNameText) \in Range(sheet.rows[1])

\* the cells of the rows in the columns the sheet had
DataCells(rows, width) == [i \in 1..Len(rows) |-> SubSeq(rows[i], 1, width)]

\* C19: a sheet of more than 50 columns whose first row holds the value
\* Stn_Name gets that row as its header and loses it as a data row; every
\* other sheet, also one of more than 50 columns without a row and one of 50
\* columns or fewer, keeps its header and its rows, and no error is raised.
C19_HeaderDetection ==
  DsmCleaned =>
    /\ ~cleaned.raised
    /\ cleaned.header = (IF HeaderInFirstRow THEN sheet.rows[1] ELSE sheet.cols)
    /\ DataCells(cleaned.rows, Len(sheet.cols))
         = (IF HeaderInFirstRow THEN Tail(sheet.rows) ELSE sheet.rows)

----------------------------------------------------------------------------
(* C20 *)

\* a label that is missing, empty or only whitespace
BlankLabel(v) == v.k = "nan" \/ (v.k = "str" /\ Strip(v.t) = <<>>)

Trimmed(v) == v.k = "str" /\ Strip(v.t) = v.t

\* C20: after cleaning, in dsm-data.py and in erpc_extractor.py, no column
\* name has leading or trailing whitespace, and every column whose name was
\* missing, empty or only whitespace has the name Column_<index> of its
\* position.
C20_ColumnNames ==
  cleaned.kept =>
    \A j \in 1..Len(cleaned.header) :
      /\ Trimmed(cleaned.columns[j])
      /\ BlankLabel(cleaned.header[j])
           => cleaned.columns[j] = S(ColumnPlaceholder(j - 1))

----------------------------------------------------------------------------
(* C21 *)

\* the scripts that prune: erpc_extractor.py and dsm_extractor.py with the
\* same pandas code, dsa_extractor.py on the cells of the worksheet
Pruning == cleaned.script \in {"erpc", "dsa"}

\* the cells the script was given, and a cell as the script hands it on
PruneInput == IF cleaned.script = "dsa" THEN Worksheet(sheet) ELSE sheet.rows
HandedOn(v) == IF cleaned.script = "dsa" THEN CleanedCell(v) ELSE v

EmptyCell(v) == v.k = "nan" \/ v = S(<<>>)

EmptyRow(row) == \A j \in 1..Len(row) : EmptyCell(row[j])
EmptyColumn(rows, j) == \A i \in 1..Len(rows) : EmptyCell(rows[i][j])

GridWidth(rows) == IF rows = <<>> THEN 0 ELSE Len(rows[1])

\* the rows with a filled cell, and of them the columns with a filled cell
FilledRows(rows) == SelectRows(rows, [i \in 1..Len(rows) |-> ~EmptyRow(rows[i])])
FilledPositions(rows) ==
  SelectRows([j \in 1..GridWidth(rows) |-> j],
             [j \in 1..GridWidth(rows) |-> ~EmptyColumn(FilledRows(rows), j)])
Pruned(rows) ==
  [i \in 1..Len(FilledRows(rows)) |->
     [j \in 1..Len(FilledPositions(rows)) |->
        HandedOn(FilledRows(rows)[i][FilledPositions(rows)[j]])]]

\* C21: the cleaned table of a sheet has no row and no column whose cells
\* are all empty, also no empty column between filled ones, and holds every
\* filled row and column of the sheet; a sheet that is empty after pruning
\* is left out.
C21_Pruning ==
  Pruning =>
    /\ ~cleaned.raised
    /\ cleaned.kept <=> (FilledRows(PruneInput) # <<>> /\ FilledPositions(PruneInput) # <<>>)
    /\ cleaned.kept =>
         /\ \A i \in 1..Len(cleaned.rows) : ~EmptyRow(cleaned.rows[i])
         /\ \A j \in 1..GridWidth(cleaned.rows) : ~EmptyColumn(cleaned.rows, j)
         /\ cleaned.rows = Pruned(PruneInput)

----------------------------------------------------------------------------
(* The parse of a downloaded workbook: download_and_process_file of          *)
(* dsm-data.py from pd.ExcelFile to the call of process_weekly_dataframe.    *)

\* sheets of a workbook
MaxSheets == 2

\* f'sheet{i+1}' and 'sheet1'
GenericSheet(i) == <<"s", "h", "e", "e", "t">> \o Decimal(i)

\* pd.DataFrame({'Error': [f'Sheet {sheet_name} corrupted']})
Placeholder(sheet_name) ==
  [cols |-> <<S(<<"E", "r", "r", "o", "r">>)>>,
   rows |-> <<<<S(<<"S", "h", "e", "e", "t", " ">> \o sheet_name
                  \o <<" ", "c", "o", "r", "r", "u", "p", "t", "e", "d">>)>>>>]

FillerLabels(w) == [j \in 1..w |-> FillerLabel(j)]
FillerCells(w) == [j \in 1..w |-> FillerCell]

\* the sheets of the workbooks: two columns and a row; more than 50 columns
\* and no row; more than 50 columns and a row; more than 50 columns under a
\* title row
WorkbookTables ==
  {[cols |-> <<S(<<" ", "A", " ">>), S(Unnamed(1))>>, rows |-> <<<<S(TA), NaN>>>>],
   [cols |-> FillerLabels(HeaderThreshold + 1), rows |-> <<>>],
   [cols |-> FillerLabels(HeaderThreshold + 1),
    rows |-> <<FillerCells(HeaderThreshold + 1)>>],
   [cols |-> Widen(<<S(TA), S(Unnamed(1))>>, HeaderThreshold + 1,
                   [j \in 1..(HeaderThreshold + 1) |-> S(Unnamed(j - 1))]),
    rows |-> <<Widen(<<S(StnNameText)>>, HeaderThreshold + 1,
                     FillerLabels(HeaderThreshold + 1)),
               Widen(<<S(TA)>>, HeaderThreshold + 1, FillerCells(HeaderThreshold + 1))>>]}

WorkbookSheetNames == <<SheetA, SheetB>>

\* A downloaded file: a workbook pd.ExcelFile opens, with sheets that
\* read_excel can read or not; or a file it cannot open, which is no zip
\* archive or an archive with some xl/worksheets/sheet members.
Workbooks ==
  {[opens |-> TRUE, zip |-> TRUE, sheet_files |-> n,
    sheets |-> [i \in 1..n |->
                  [name |-> WorkbookSheetNames[i], readable |-> content[i][1],
                   table |-> content[i][2]]]] :
     <<n, content>> \in UNION {{n} \X [1..n -> BOOLEAN \X WorkbookTables] : n \in 1..MaxSheets}}
  \cup {[opens |-> FALSE, zip |-> FALSE, sheet_files |-> 0, sheets |-> <<>>]}
  \cup {[opens |-> FALSE, zip |-> TRUE, sheet_files |-> n, sheets |-> <<>>] :
          n \in 0..MaxSheets}

\* excel_file.sheet_names: of the workbook, or of the substitute object the
\* except branches build
SheetNamesOf(book) ==
  IF book.opens THEN [i \in 1..Len(book.sheets) |-> book.sheets[i].name]
  ELSE IF book.zip /\ book.sheet_files > 0
  THEN [i \in 1..book.sheet_files |-> GenericSheet(i)]
  ELSE <<GenericSheet(1)>>

\* sheet_data[sheet_name] = pd.read_excel(file_path, sheet_name=sheet_name),
\* the placeholder when it raises; it raises for every sheet of a file that
\* pd.ExcelFile cannot open
ReadSheets(book) ==
  [i \in 1..Len(SheetNamesOf(book)) |->
     IF book.opens /\ book.sheets[i].readable THEN book.sheets[i].table
     ELSE Placeholder(SheetNamesOf(book)[i])]

NoWorkbook == [opens |-> FALSE, zip |-> FALSE, sheet_files |-> 0, sheets |-> <<>>]

NoParse ==
  [done |-> FALSE, sheet_names |-> <<>>, sheet_data |-> <<>>, handed |-> <<>>,
   aborted |-> FALSE, returned |-> FALSE, log |-> {}]

\* download_and_process_file after the download: the sheet names, the
\* sheets read, the cleaning of every sheet, and process_weekly_dataframe
\* (its return value is `written`) on all of them; an exception of the
\* cleaning ends the call in the except of the function
ParseWorkbook(book, written) ==
  LET names == SheetNamesOf(book)
      tables == ReadSheets(book)
      all_dfs == [i \in 1..Len(names) |-> CleanSheet(tables[i], names[i])]
      raised == \E i \in 1..Len(names) : all_dfs[i].raised
      warnings ==
        (IF book.opens THEN {} ELSE {Logged("warning", "Error reading Excel file")})
          \cup (IF \E i \in 1..Len(names) : tables[i] = Placeholder(names[i])
                THEN {Logged("warning", "Error reading sheet")} ELSE {})
  IN [done |-> TRUE, sheet_names |-> names, sheet_data |-> tables,
      handed |-> IF raised THEN <<>>
                 ELSE [i \in 1..Len(names) |->
                         [name |-> names[i], columns |-> all_dfs[i].columns,
                          rows |-> all_dfs[i].rows]],
      aborted |-> raised,
      returned |-> ~raised /\ written,
      log |-> warnings \cup (IF raised THEN {Logged("error", "Error processing file")}
                             ELSE IF written THEN {}
                             ELSE {Logged("error", "Failed to create Excel file")})]

\* no workbook is parsed
ParserIdle == workbook = NoWorkbook /\ parsed = NoParse

\* a file has been downloaded
ParserStart == workbook \in Workbooks /\ parsed = NoParse

DownloadAndProcessFile(written) ==
  /\ ~parsed.done
  /\ parsed' = ParseWorkbook(workbook, written)
  /\ UNCHANGED <<workbook, mergeVars, ledgerVars, writerVars, cleanerVars,
                 wrpcVars, patternVars, schedulerVars>>

NextParser == \E written \in BOOLEAN : DownloadAndProcessFile(written)

----------------------------------------------------------------------------
(* C22 *)

\* the sheet the call handed to the writer under a name
Handed(sheet_name) ==
  {[columns |-> parsed.handed[i].columns, rows |-> parsed.handed[i].rows] :
     i \in {k \in 1..Len(parsed.handed) : parsed.handed[k].name = sheet_name}}

Processed(table, sheet_name) ==
  [columns |-> CleanSheet(table, sheet_name).columns,
   rows |-> CleanSheet(table, sheet_name).rows]

\* the sheet list of a file that cannot be opened
DegradedNames ==
  IF workbook.zip /\ workbook.sheet_files > 0
  THEN [i \in 1..workbook.sheet_files |-> GenericSheet(i)]
  ELSE <<GenericSheet(1)>>

\* C22: download_and_process_file is not aborted by a workbook that cannot
\* be opened or a sheet that cannot be read: the sheet list falls back to
\* the sheets found in the archive, else to sheet1; a sheet that cannot be
\* read becomes the one-row placeholder; every readable sheet of the
\* workbook is cleaned and handed to the writer with the others.
C22_ParseFallback ==
  parsed.done =>
    /\ ~parsed.aborted
    /\ ~workbook.opens =>
         /\ parsed.sheet_names = DegradedNames
         /\ \A i \in 1..Len(parsed.sheet_names) :
              Handed(parsed.sheet_names[i])
                = {Processed(Placeholder(parsed.sheet_names[i]), parsed.sheet_names[i])}
    /\ workbook.opens =>
         \A i \in 1..Len(workbook.sheets) :
           Handed(workbook.sheets[i].name)
             = {Processed(IF workbook.sheets[i].readable THEN workbook.sheets[i].table
                          ELSE Placeholder(workbook.sheets[i].name),
                          workbook.sheets[i].name)}

----------------------------------------------------------------------------
(* The CSV pass of wrpc_extractor.py: main, get_csv_files, process_csv_file. *)
(* OUTPUT_DIR and WRPC_DATA_DIR are the same directory.  A file name is the  *)
(* sequence of its parts, a file [name, size, rows, origin]: origin is the   *)
(* source CSV its content comes from.                                        *)

\* runs of main
MaxMainRuns == 3

CsvFile(name, rows, origin) ==
  [name |-> name, size |-> rows, rows |-> rows, origin |-> origin]

\* the CSV files a download leaves in the data directory: two with data,
\* a schedule file, an empty file, a file with a header only
SourceFiles ==
  {CsvFile(<<"X", "_DSM-2024_Data", ".csv">>, 3, "X"),
   CsvFile(<<"Y", ".csv">>, 2, "Y"),
   CsvFile(<<"Schedule", "_W1", ".csv">>, 3, "Schedule"),
   CsvFile(<<"E", ".csv">>, 0, "E"),
   CsvFile(<<"H", ".csv">>, 1, "H")}

\* filename.lower()
LowerPart(part) == IF part = "Schedule" THEN "schedule" ELSE part

\* get_csv_files: the files of the directory that are not empty and have
\* none of the three marks in their name
GetCsvFiles(dir) ==
  {f \in dir :
     /\ f.size > 0
     /\ "schedule" \notin {LowerPart(f.name[i]) : i \in 1..Len(f.name)}
     /\ "_processed" \notin Range(f.name)
     /\ "Summary_Report" \notin Range(f.name)}

\* name.replace('_DSM-2024_Data.csv', '')
RECURSIVE ReplaceDataCsv(_)
ReplaceDataCsv(name) ==
  IF Len(name) < 2 THEN name
  ELSE IF name[1] = "_DSM-2024_Data" /\ name[2] = ".csv"
  THEN ReplaceDataCsv(SubSeq(name, 3, Len(name)))
  ELSE <<name[1]>> \o ReplaceDataCsv(Tail(name))

\* extract_constituent_name
ExtractConstituentName(name) == Replace(ReplaceDataCsv(name), "_DSM-2024_Data")

\* output_filename = f"{constituent}_extracted.csv"
OutputFilename(name) == ExtractConstituentName(name) \o <<"_extracted", ".csv">>

\* validate_csv_structure: a header and a first data row
ValidateCsvStructure(f) == f.rows >= 2

\* process_csv_file: the copy it writes into OUTPUT_DIR, for a file with
\* more than the header
ProcessCsvFile(f) == CsvFile(OutputFilename(f.name), f.rows, f.origin)

FileNames(dir) == {f.name : f \in dir}

\* files written into a directory, over files of their names
WriteFiles(dir, files) ==
  {f \in dir : f.name \notin FileNames(files)} \cup files

\* download_from_wrpc_website and the extraction of the archives: it fails,
\* or leaves the files of the archives in the directory
Downloads ==
  {[ok |-> FALSE, files |-> {}], [ok |-> TRUE, files |-> {}]}
    \cup {[ok |-> TRUE, files |-> {f}] : f \in SourceFiles}

\* main: the CSV files found (after a download when there were none), and
\* an extracted copy written for every valid one
Main(dir, fresh) ==
  LET first == GetCsvFiles(dir)
      download == first = {}
      dir1 == IF download /\ fresh.ok THEN WriteFiles(dir, fresh.files) ELSE dir
      csv_files == IF first # {} THEN first
                   ELSE IF fresh.ok THEN GetCsvFiles(dir1) ELSE {}
      outputs == {ProcessCsvFile(f) :
                    f \in {g \in csv_files : ValidateCsvStructure(g) /\ g.rows > 1}}
  IN [dir |-> WriteFiles(dir1, outputs),
      found |-> FileNames(csv_files),
      written |-> FileNames(outputs),
      downloaded |-> download /\ fresh.ok]

NoWrpcRun ==
  [n |-> 0, found |-> {}, written |-> {}, written_before |-> {}, dir_before |-> {},
   downloaded |-> FALSE]

\* main is not run
WrpcIdle == data_dir = {} /\ wrpc_run = NoWrpcRun

\* some source files lie in the data directory
WrpcStart == data_dir \in SUBSET SourceFiles /\ wrpc_run = NoWrpcRun

WrpcMain(fresh) ==
  /\ wrpc_run.n < MaxMainRuns
  /\ \E r \in {Main(data_dir, fresh)} :
       /\ data_dir' = r.dir
       /\ wrpc_run' = [n |-> wrpc_run.n + 1, found |-> r.found, written |-> r.written,
                       written_before |-> wrpc_run.written_before \cup wrpc_run.written,
                       dir_before |-> FileNames(data_dir),
                       downloaded |-> r.downloaded]
  /\ UNCHANGED <<mergeVars, ledgerVars, writerVars, cleanerVars, parserVars,
                 patternVars, schedulerVars>>

NextWrpc == \E fresh \in Downloads : WrpcMain(fresh)

----------------------------------------------------------------------------
(* C23 *)

\* the extracted copies of a source CSV in the data directory
ExtractedOf(origin) == {f \in data_dir : f.origin = origin /\ f \notin SourceFiles}

\* C23: get_csv_files never returns a file that process_csv_file wrote in
\* an earlier run of main; over the runs a source CSV has one extracted
\* output, and after the first run a run without a download adds no file
\* to the data directory.
C23_ProcessedFiltered ==
  wrpc_run.n > 0 =>
    /\ wrpc_run.found \cap wrpc_run.written_before = {}
    /\ \A s \in SourceFiles : Cardinality(ExtractedOf(s.origin)) <= 1
    /\ (wrpc_run.n > 1 /\ ~wrpc_run.downloaded) =>
         FileNames(data_dir) = wrpc_run.dir_before

----------------------------------------------------------------------------
(* The scheduler loop: start_scheduler of dsm-data.py and erpc_extractor.py. *)
(* The two scripts register the same two jobs and run the same loop.  The    *)
(* schedule library is given by its documented behaviour: a job is run by    *)
(* run_pending when its next run time is reached, never at registration; a   *)
(* day job at 09:00 is next due on the first 09:00 after now, a monday job   *)
(* on the first Monday 09:00 after now; run_pending runs every due job.      *)
(* The time is [day, part]: days are counted from a Monday, and the loop     *)
(* wakes before 09:00, at 09:00 and after 09:00 of every day.                *)

\* passes of the loop
MaxTicks == 24

Days == <<"monday", "tuesday", "wednesday", "thursday", "friday", "saturday", "sunday">>

Parts == <<"before 09:00", "09:00", "after 09:00">>

Weekday(day) == Days[(day % Len(Days)) + 1]

\* the day a job is due at 09:00, looking from day `from` on
RECURSIVE NextRun(_, _)
NextRun(start_day, from) ==
  IF start_day = "day" \/ Weekday(from) = start_day THEN from
  ELSE NextRun(start_day, from + 1)

\* schedule.every().<start_day>.at("09:00").do(scheduled_update), at time now
Every(start_day, now) ==
  [start_day |-> start_day,
   next_run |-> NextRun(start_day, IF now.part = Parts[1] THEN now.day ELSE now.day + 1)]

\* job.should_run
ShouldRun(job, now) ==
  job.next_run < now.day \/ (job.next_run = now.day /\ now.part # Parts[1])

\* run_pending: every due job is run and scheduled again; updates counts
\* the calls of scheduled_update
RunPending(jobs, now) ==
  [jobs |-> [i \in DOMAIN jobs |->
               IF ShouldRun(jobs[i], now)
               THEN [jobs[i] EXCEPT !.next_run = NextRun(jobs[i].start_day, now.day + 1)]
               ELSE jobs[i]],
   updates |-> Cardinality({i \in DOMAIN jobs : ShouldRun(jobs[i], now)})]

\* time.sleep(60), seen at the three moments of a day
Sleep(now) ==
  IF now.part = Parts[Len(Parts)] THEN [day |-> now.day + 1, part |-> Parts[1]]
  ELSE [day |-> now.day,
        part |-> Parts[(CHOOSE i \in DOMAIN Parts : Parts[i] = now.part) + 1]]

Clock == [day : 0..(Len(Days) - 1), part : Range(Parts)]

NoScheduler(now) ==
  [started |-> FALSE, now |-> now, jobs |-> <<>>, updates |-> 0, ticks |-> 0]

\* the script is not started with --schedule
SchedulerIdle == scheduler = NoScheduler([day |-> 0, part |-> Parts[1]])

\* the script is about to be started, at any moment of a week
SchedulerStart == \E now \in Clock : scheduler = NoScheduler(now)

\* start_scheduler up to its first run_pending
StartScheduler ==
  /\ ~scheduler.started
  /\ \E r \in {RunPending(<<Every("monday", scheduler.now), Every("day", scheduler.now)>>,
                          scheduler.now)} :
       scheduler' = [scheduler EXCEPT !.started = TRUE, !.jobs = r.jobs,
                                      !.updates = r.updates]
  /\ UNCHANGED <<mergeVars, ledgerVars, writerVars, cleanerVars, parserVars,
                 wrpcVars, patternVars>>

\* one pass of the loop: time.sleep(60), then schedule.run_pending()
Tick ==
  /\ scheduler.started
  /\ scheduler.ticks < MaxTicks
  /\ \E now \in {Sleep(scheduler.now)} :
       \E r \in {RunPending(scheduler.jobs, now)} :
         scheduler' = [scheduler EXCEPT !.now = now, !.jobs = r.jobs,
                                        !.updates = r.updates,
                                        !.ticks = scheduler.ticks + 1]
  /\ UNCHANGED <<mergeVars, ledgerVars, writerVars, cleanerVars, parserVars,
                 wrpcVars, patternVars>>

NextScheduler == StartScheduler \/ Tick

----------------------------------------------------------------------------
(* C24 *)

MondayTick ==
  Weekday(scheduler.now.day) = "monday" /\ scheduler.now.part = "09:00"

\* C24: when start_scheduler is started scheduled_update runs once at once;
\* afterwards a pass of the loop runs it once when it is the Monday 09:00
\* pass and not at all otherwise.
C24_WeeklySchedule ==
  scheduler.started =>
    IF scheduler.ticks = 0 THEN scheduler.updates = 1
    ELSE scheduler.updates = (IF MondayTick THEN 1 ELSE 0)

----------------------------------------------------------------------------
(* The learned-pattern store of wrpc_extractor.py: successful_patterns.txt,  *)
(* load_learned_patterns and save_successful_pattern.  A pattern and a line  *)
(* of the file are sequences of characters; the file is [exists, lines].     *)

\* calls of save_successful_pattern
MaxSaves == 3

\* if len(existing_patterns) > 50
PatternLimit == 50

NoPatternFile == [exists |-> FALSE, lines |-> <<>>]

\* [line.strip() for line in f.readlines() if line.strip()]
RECURSIVE StrippedLines(_)
StrippedLines(lines) ==
  IF lines = <<>> THEN <<>>
  ELSE IF Strip(Head(lines)) = <<>> THEN StrippedLines(Tail(lines))
  ELSE <<Strip(Head(lines))>> \o StrippedLines(Tail(lines))

\* load_learned_patterns: the store
LoadLearnedPatterns(file) == IF file.exists THEN StrippedLines(file.lines) ELSE <<>>

\* existing_patterns[-50:]
LastPatterns(patterns) ==
  IF Len(patterns) > PatternLimit
  THEN SubSeq(patterns, Len(patterns) - PatternLimit + 1, Len(patterns))
  ELSE patterns

\* save_successful_pattern: the file after the call
SaveSuccessfulPattern(file, pattern) ==
  LET existing_patterns == LoadLearnedPatterns(file)
  IN IF pattern \notin Range(existing_patterns)
     THEN [exists |-> TRUE, lines |-> LastPatterns(Append(existing_patterns, pattern))]
     ELSE file

\* the file save_successful_pattern has written for the patterns 1..k
LearnedFile(k) == [exists |-> TRUE, lines |-> [i \in 1..k |-> Decimal(i)]]

\* the patterns of the calls: names left of a download, one of them taken
\* from a link with a blank in front
LearnedPatterns ==
  {Decimal(1), Decimal(2), Decimal(PatternLimit + 1), Decimal(PatternLimit + 2),
   <<" ">> \o Decimal(2)}

NoPatternCall == [n |-> 0, pattern |-> <<>>, before |-> <<>>]

\* no pattern is learned
PatternIdle == pattern_file = NoPatternFile /\ pattern_call = NoPatternCall

\* no file yet, or a file of 1, 49 or 50 learned patterns
PatternStart ==
  /\ pattern_file \in {NoPatternFile, LearnedFile(1), LearnedFile(PatternLimit - 1),
                       LearnedFile(PatternLimit)}
  /\ pattern_call = NoPatternCall

SavePattern(pattern) ==
  /\ pattern_call.n < MaxSaves
  /\ pattern_file' = SaveSuccessfulPattern(pattern_file, pattern)
  /\ pattern_call' = [n |-> pattern_call.n + 1, pattern |-> pattern,
                      before |-> LoadLearnedPatterns(pattern_file)]
  /\ UNCHANGED <<mergeVars, ledgerVars, writerVars, cleanerVars, parserVars,
                 wrpcVars, schedulerVars>>

NextPatterns == \E pattern \in LearnedPatterns : SavePattern(pattern)

----------------------------------------------------------------------------
(* C29 *)

NoPatternTwice(store) ==
  \A i, j \in 1..Len(store) : store[i] = store[j] => i = j

\* the store is the store before without its k oldest patterns, and the
\* pattern last
LearnedLast(store, before, pattern, k) ==
  store = SubSeq(before, k + 1, Len(before)) \o <<pattern>>

\* C29: after a call of save_successful_pattern the store holds at most 50
\* patterns and none twice; a pattern that was stored leaves the store as it
\* was, a new one is last in the store, behind the patterns of before in
\* their order, of which the oldest are gone only when the store is full.
C29_PatternStore ==
  LET store == LoadLearnedPatterns(pattern_file)
      before == pattern_call.before
      pattern == pattern_call.pattern
  IN pattern_call.n > 0 =>
       /\ Len(store) <= PatternLimit
       /\ NoPatternTwice(store)
       /\ IF pattern \in Range(before) THEN store = before
          ELSE \E k \in 0..Len(before) :
                 /\ LearnedLast(store, before, pattern, k)
                 /\ k > 0 => Len(store) = PatternLimit

----------------------------------------------------------------------------
(* Specifications *)

\* the merge is not running
MergeIdle == InitMerge /\ data_type = "DSA"

\* the other programs are not running

RestIdle == ParserIdle /\ WrpcIdle /\ PatternIdle /\ SchedulerIdle

\* process_dataframe calls on the master CSV of one data type
Init == InitMerge /\ LedgerIdle /\ WriterIdle /\ CleanerIdle /\ RestIdle

Spec == Init /\ [][Next]_vars

\* runs of dsm-data.py or calls of erpc_extractor.py on their ledgers
InitLedger == LedgerStart /\ MergeIdle /\ WriterIdle /\ CleanerIdle /\ RestIdle

SpecLedger == InitLedger /\ [][NextLedger]_vars

\* calls of process_weekly_dataframe on the weekly artifacts
InitWriter == WriterStart /\ MergeIdle /\ LedgerIdle /\ CleanerIdle /\ RestIdle

SpecWriter == InitWriter /\ [][NextWriter]_vars

\* sheets on their way through the cleaning of the two scripts
InitCleaner == CleanerStart /\ MergeIdle /\ LedgerIdle /\ WriterIdle /\ RestIdle

SpecCleaner == InitCleaner /\ [][NextCleaner]_vars

\* downloaded workbooks on their way through download_and_process_file
ProgramsIdle == MergeIdle /\ LedgerIdle /\ WriterIdle /\ CleanerIdle

InitParser == ParserStart /\ ProgramsIdle /\ WrpcIdle /\ PatternIdle /\ SchedulerIdle

SpecParser == InitParser /\ [][NextParser]_vars

\* runs of main of wrpc_extractor.py on its data directory
InitWrpc == WrpcStart /\ ProgramsIdle /\ ParserIdle /\ PatternIdle /\ SchedulerIdle

SpecWrpc == InitWrpc /\ [][NextWrpc]_vars

\* the scheduler loop of dsm-data.py and erpc_extractor.py
InitScheduler == SchedulerStart /\ ProgramsIdle /\ ParserIdle /\ WrpcIdle /\ PatternIdle

SpecScheduler == InitScheduler /\ [][NextScheduler]_vars

\* calls of save_successful_pattern on the learned-pattern file
InitPatterns == PatternStart /\ ProgramsIdle /\ ParserIdle /\ WrpcIdle /\ SchedulerIdle

SpecPatterns == InitPatterns /\ [][NextPatterns]_vars

====
